---- MODULE Spec2Model ----
(***************************************************************************)
(* Verification development for the anonymous credential checker:         *)
(* the trusted-root registry (RootManager), the staged proof verifier     *)
(* (ZKVerifier), the pre-filter (ProofValidator), the wire codec           *)
(* (ProofSerializer.validate / deserialize) and the verify endpoint        *)
(* (VerifyController.verifyProof).                                         *)
(*                                                                         *)
(* Strings that the code only compares are TLA+ strings.  Strings whose    *)
(* characters the code inspects or converts (hex hashes, decimal field     *)
(* elements, timestamps on the wire) are sequences of one-character        *)
(* strings.  A JavaScript Date is a record [valid, ms]; an Invalid Date    *)
(* has valid = FALSE and every comparison with it is false, as in JS.      *)
(***************************************************************************)
EXTENDS Integers, Sequences, FiniteSets

VARIABLES
    now,              \* the wall clock, in milliseconds (new Date(), Date.now())
    trustedRoots,     \* RootManager.trustedRoots : Map<setId, Set<root>>
    rootMetadata,     \* RootManager.rootMetadata : Map<rootKey, TrustedRoot>
    verificationKey,  \* ZKVerifier.verificationKey (NullKey until initialize succeeds)
    ver,              \* the verification in flight: where verifyProof is suspended
    last,             \* the most recent call that returned, with what it returned
    credentialSets,   \* CredentialSetManager.credentialSets : Map<id, CredentialSetData>
    uuidCount,        \* how many identifiers uuidv4() has handed out
    callerArray,      \* the array passed to the latest successful createCredentialSet,
                      \* as its caller holds it now
    initialized,      \* ZKProver.initialized
    config            \* the configuration read from the environment at load

\* The state of the credential set manager and of its caller.
setVars == <<credentialSets, uuidCount, callerArray>>

\* The state of the prover and the configuration it reads.
proverVars == <<initialized, config>>

vars == <<now, trustedRoots, rootMetadata, verificationKey, ver, last, setVars, proverVars>>

----------------------------------------------------------------------------
(* Bounds of the model. *)

\* The clock runs from 0 to MaxTime.
MaxTime == 2

\* Length of a hex hash.  The source's validateHexHash asks for 64 characters;
\* the model keeps the same check on shorter strings so that the numeric value
\* of a hash stays within TLC's integers.
HexLen == 2

\* How many fields of a submitted proof may be missing, empty or unparsable
\* at once.
MaxDefects == 1

----------------------------------------------------------------------------
(* Characters, hex and decimal strings. *)

Digits == <<"0", "1", "2", "3", "4", "5", "6", "7", "8", "9">>
LowerHexLetters == <<"a", "b", "c", "d", "e", "f">>
UpperHexLetters == <<"A", "B", "C", "D", "E", "F">>

Range(s) == {s[i] : i \in 1..Len(s)}

IndexIn(s, c) == CHOOSE i \in 1..Len(s) : s[i] = c

IsDigit(c) == c \in Range(Digits)

\* The character class [a-f0-9] under the regex flag /i.
IsHexChar(c) ==
    \/ c \in Range(Digits)
    \/ c \in Range(LowerHexLetters)
    \/ c \in Range(UpperHexLetters)

HexCharValue(c) ==
    IF c \in Range(Digits) THEN IndexIn(Digits, c) - 1
    ELSE IF c \in Range(LowerHexLetters) THEN 9 + IndexIn(LowerHexLetters, c)
    ELSE 9 + IndexIn(UpperHexLetters, c)

\* BigInt('0x' + hex)
RECURSIVE HexToInt(_)
HexToInt(h) ==
    IF Len(h) = 0 THEN 0
    ELSE 16 * HexToInt(SubSeq(h, 1, Len(h) - 1)) + HexCharValue(h[Len(h)])

\* n.toString() : the decimal string of a field element
RECURSIVE ToDecimal(_)
ToDecimal(n) ==
    IF n < 10 THEN <<Digits[n + 1]>>
    ELSE Append(ToDecimal(n \div 10), Digits[(n % 10) + 1])

IsDecimal(s) == Len(s) > 0 /\ \A i \in 1..Len(s) : IsDigit(s[i])

RECURSIVE ParseDecimal(_)
ParseDecimal(s) ==
    IF Len(s) = 0 THEN 0
    ELSE 10 * ParseDecimal(SubSeq(s, 1, Len(s) - 1)) + (IndexIn(Digits, s[Len(s)]) - 1)

\* 'a'.repeat(n)
Rep(c, n) == [i \in 1..n |-> c]

----------------------------------------------------------------------------
(* Dates. *)

D(t) == [valid |-> TRUE, ms |-> t]
InvalidDate == [valid |-> FALSE, ms |-> 0]

\* a < b, a > b, a <= b on Dates: numeric comparison of getTime(), false when
\* either side is NaN.
DateLt(a, b) == a.valid /\ b.valid /\ a.ms < b.ms
DateGt(a, b) == a.valid /\ b.valid /\ a.ms > b.ms
DateLe(a, b) == a.valid /\ b.valid /\ a.ms <= b.ms

\* The optional expiresAt of a TrustedRoot.
NoExpiry == [has |-> FALSE, ms |-> 0]
ExpiresAtMs(t) == [has |-> TRUE, ms |-> t]

----------------------------------------------------------------------------
(* RootManager. *)

EmptyMap == [k \in {} |-> {}]

\* getRootKey naming the set only.
getRootKey_setOnly(credentialSetId, merkleRoot) == <<credentialSetId, ":">>

\* `${credentialSetId}:${merkleRoot}`
getRootKey(credentialSetId, merkleRoot) == <<credentialSetId, ":">> \o merkleRoot

\* validateHexHash: TRUE when it returns, FALSE when it throws.
validateHexHash(value) ==
    /\ Len(value) = HexLen
    /\ \A i \in 1..Len(value) : IsHexChar(value[i])

\* What addTrustedRoot throws for this entry ("" when it throws nothing).
addTrustedRootError(root) ==
    IF root.credentialSetId = "" \/ Len(root.merkleRoot) = 0 THEN "VALIDATION_ERROR"
    ELSE IF ~validateHexHash(root.merkleRoot) THEN "VALIDATION_ERROR"
    ELSE ""

\* roots.add(merkleRoot) on the set stored (or created) for credentialSetId.
trustedRootsAfterAdd(root) ==
    [s \in DOMAIN trustedRoots \cup {root.credentialSetId} |->
        IF s = root.credentialSetId
        THEN (IF s \in DOMAIN trustedRoots THEN trustedRoots[s] ELSE {}) \cup {root.merkleRoot}
        ELSE trustedRoots[s]]

\* rootMetadata.set(getRootKey(...), root)
rootMetadataAfterAdd(root) ==
    LET key == getRootKey(root.credentialSetId, root.merkleRoot)
    IN  [k \in DOMAIN rootMetadata \cup {key} |->
            IF k = key THEN root ELSE rootMetadata[k]]

addTrustedRoot(root) ==
    LET err == addTrustedRootError(root)
    IN  /\ IF err # ""
           THEN UNCHANGED <<trustedRoots, rootMetadata>>
           ELSE /\ trustedRoots' = trustedRootsAfterAdd(root)
                /\ rootMetadata' = rootMetadataAfterAdd(root)
        /\ last' = [op |-> "addTrustedRoot", root |-> root, threw |-> err]
        /\ UNCHANGED <<now, verificationKey, ver, setVars, proverVars>>

\* isTrustedRoot holding an entry expired at the instant of its expiresAt.
isTrustedRoot_orEqual(credentialSetId, merkleRoot) ==
    IF \/ credentialSetId \notin DOMAIN trustedRoots
       \/ merkleRoot \notin trustedRoots[credentialSetId]
    THEN FALSE
    ELSE LET key == getRootKey(credentialSetId, merkleRoot)
         IN  ~(/\ key \in DOMAIN rootMetadata
               /\ rootMetadata[key].expiresAt.has
               /\ rootMetadata[key].expiresAt.ms <= now)

\* isTrustedRoot looking the root up in every set instead of the proof's set.
isTrustedRoot_anySet(credentialSetId, merkleRoot) ==
    \E s \in DOMAIN trustedRoots :
        /\ merkleRoot \in trustedRoots[s]
        /\ LET key == getRootKey(s, merkleRoot)
           IN  ~(/\ key \in DOMAIN rootMetadata
                 /\ rootMetadata[key].expiresAt.has
                 /\ rootMetadata[key].expiresAt.ms < now)

\* The value isTrustedRoot resolves to.
isTrustedRoot(credentialSetId, merkleRoot) ==
    IF \/ credentialSetId \notin DOMAIN trustedRoots
       \/ merkleRoot \notin trustedRoots[credentialSetId]
    THEN FALSE
    ELSE LET key == getRootKey(credentialSetId, merkleRoot)
         IN  IF /\ key \in DOMAIN rootMetadata
                /\ rootMetadata[key].expiresAt.has
                /\ rootMetadata[key].expiresAt.ms < now
             THEN FALSE
             ELSE TRUE

IsTrustedRootCall(credentialSetId, merkleRoot) ==
    /\ last' = [op |-> "isTrustedRoot", credentialSetId |-> credentialSetId,
                merkleRoot |-> merkleRoot, at |-> now,
                result |-> isTrustedRoot(credentialSetId, merkleRoot)]
    /\ UNCHANGED <<now, trustedRoots, rootMetadata, verificationKey, ver, setVars, proverVars>>

\* revokeTrustedRoot answering for the set instead of the root.
revokeResult_setOnly(credentialSetId, merkleRoot) ==
    credentialSetId \in DOMAIN trustedRoots

\* The value revokeTrustedRoot returns: roots.delete(merkleRoot), or false
\* when no set is stored for credentialSetId.
revokeResult(credentialSetId, merkleRoot) ==
    IF credentialSetId \notin DOMAIN trustedRoots THEN FALSE
    ELSE merkleRoot \in trustedRoots[credentialSetId]

\* revokeTrustedRoot dropping every root of the set.
revokeTrustedRoot_wholeSet(credentialSetId, merkleRoot) ==
    LET deleted == revokeResult(credentialSetId, merkleRoot)
    IN  /\ IF deleted
           THEN /\ trustedRoots' = [trustedRoots EXCEPT ![credentialSetId] = {}]
                /\ rootMetadata' =
                     [k \in {k \in DOMAIN rootMetadata : k[1] # credentialSetId} |->
                         rootMetadata[k]]
           ELSE UNCHANGED <<trustedRoots, rootMetadata>>
        /\ last' = [op |-> "revokeTrustedRoot", credentialSetId |-> credentialSetId,
                    merkleRoot |-> merkleRoot, result |-> deleted]
        /\ UNCHANGED <<now, verificationKey, ver, setVars, proverVars>>

revokeTrustedRoot(credentialSetId, merkleRoot) ==
    LET deleted == revokeResult(credentialSetId, merkleRoot)
        key == getRootKey(credentialSetId, merkleRoot)
    IN  /\ IF deleted
           THEN /\ trustedRoots' =
                     [trustedRoots EXCEPT ![credentialSetId] = @ \ {merkleRoot}]
                /\ rootMetadata' =
                     [k \in DOMAIN rootMetadata \ {key} |-> rootMetadata[k]]
           ELSE UNCHANGED <<trustedRoots, rootMetadata>>
        /\ last' = [op |-> "revokeTrustedRoot", credentialSetId |-> credentialSetId,
                    merkleRoot |-> merkleRoot, result |-> deleted]
        /\ UNCHANGED <<now, verificationKey, ver, setVars, proverVars>>

getTrustedRoots(credentialSetId) ==
    IF credentialSetId \in DOMAIN trustedRoots THEN trustedRoots[credentialSetId] ELSE {}

\* count += roots.size over the values of a map of sets
RECURSIVE SumOfSizes(_, _)
SumOfSizes(map, keys) ==
    IF keys = {} THEN 0
    ELSE LET k == CHOOSE k \in keys : TRUE
         IN  Cardinality(map[k]) + SumOfSizes(map, keys \ {k})

getTotalRootCount == SumOfSizes(trustedRoots, DOMAIN trustedRoots)

----------------------------------------------------------------------------
(* The clock. *)

Tick ==
    /\ now < MaxTime
    /\ now' = now + 1
    /\ UNCHANGED <<trustedRoots, rootMetadata, verificationKey, ver, last, setVars, proverVars>>

----------------------------------------------------------------------------
(* Proofs (ZKProof, ProofMetadata) and the Groth16 verifier. *)

\* A Groth16 proof body.  kind "groth16" is a well-formed argument that the
\* circuit outputs the root stmt; "malformed" is an object snarkjs cannot
\* read; "missing" is null / undefined.
MissingBody == [kind |-> "missing", stmt |-> 0]
MalformedBody == [kind |-> "malformed", stmt |-> 0]
Pi(x) == [kind |-> "groth16", stmt |-> x]

NoSignals == [present |-> FALSE, list |-> <<>>]
Signals(l) == [present |-> TRUE, list |-> l]

NoMetadata ==
    [present |-> FALSE, proofId |-> "", credentialSetId |-> "", merkleRoot |-> <<>>,
     timestamp |-> InvalidDate, expiresAt |-> InvalidDate, version |-> "", circuitId |-> ""]

NullProof ==
    [isNull |-> TRUE, proof |-> MissingBody, publicSignals |-> NoSignals,
     metadata |-> NoMetadata]

NullKey == "null"
LoadedKey == "verification_key.json"

\* snarkjs.groth16.verify(vkey, publicSignals, proof): "true", "false" or
\* "throw".  The circuit has one public signal, the root, given as a decimal
\* string; a well-formed argument verifies exactly against the root it was
\* made for.
Groth16Verify(vkey, publicSignals, proof) ==
    IF proof.kind # "groth16" THEN "throw"
    ELSE IF Len(publicSignals) # 1 THEN "false"
    ELSE IF ~IsDecimal(publicSignals[1]) THEN "throw"
    ELSE IF ParseDecimal(publicSignals[1]) = proof.stmt THEN "true"
    ELSE "false"

----------------------------------------------------------------------------
(* ZKVerifier. *)

Idle == [pc |-> "idle"]

\* ZKVerifier.initialize: loadVerificationKey reads verification_key.json.
initialize(keyFileReadable) ==
    /\ IF keyFileReadable
       THEN verificationKey' = LoadedKey
       ELSE UNCHANGED verificationKey
    /\ last' = [op |-> "initialize",
                threw |-> IF keyFileReadable THEN "" ELSE "CIRCUIT_INITIALIZATION_FAILED"]
    /\ UNCHANGED <<now, trustedRoots, rootMetadata, ver, setVars, proverVars>>

\* validateProofStructure: the message it pushes ("" when it returns true).
validateProofStructure(proof) ==
    IF proof.isNull THEN "Proof is null or undefined"
    ELSE IF \/ proof.proof.kind = "missing"
            \/ ~proof.publicSignals.present
            \/ ~proof.metadata.present
         THEN "Incomplete proof structure"
    ELSE IF proof.metadata.proofId = "" \/ Len(proof.metadata.merkleRoot) = 0
         THEN "Missing required metadata fields"
    ELSE IF proof.metadata.credentialSetId = "" THEN "Missing credential set ID"
    ELSE ""

\* Stage 2 rejecting a proof at the instant of its expiresAt as well.
proofExpired_orEqual(proof) == DateLe(proof.metadata.expiresAt, D(now))

\* The comparison of stage 2 turned around.
proofExpired_inverted(proof) == DateGt(proof.metadata.expiresAt, D(now))

\* Stage 2: proof.metadata.expiresAt < new Date()
proofExpired(proof) == DateLt(proof.metadata.expiresAt, D(now))

\* createResult reads proof.metadata, which throws a TypeError on a null proof.
createResultThrows(proof) == proof.isNull

\* createResult dropping the errors it is given.
createResult_noErrors(valid, proof, errors) ==
    [valid |-> valid,
     verifiedAt |-> now,
     credentialSetId |->
        IF proof.metadata.present /\ proof.metadata.credentialSetId # ""
        THEN proof.metadata.credentialSetId ELSE "unknown",
     errors |-> <<>>,
     warnings |-> <<>>]

\* The VerificationResult.  An empty errors or warnings sequence stands for
\* the field being undefined; verifyProof never pushes a warning.
createResult(valid, proof, errors) ==
    [valid |-> valid,
     verifiedAt |-> now,
     credentialSetId |->
        IF proof.metadata.present /\ proof.metadata.credentialSetId # ""
        THEN proof.metadata.credentialSetId ELSE "unknown",
     errors |-> errors,
     warnings |-> <<>>]

\* What the registry holds for a pair.
RegistryEntry(credentialSetId, merkleRoot) ==
    [registered |-> /\ credentialSetId \in DOMAIN trustedRoots
                    /\ merkleRoot \in trustedRoots[credentialSetId],
     expiresAt |-> IF getRootKey(credentialSetId, merkleRoot) \in DOMAIN rootMetadata
                   THEN rootMetadata[getRootKey(credentialSetId, merkleRoot)].expiresAt
                   ELSE NoExpiry]

\* The call that completed just before was a revokeTrustedRoot of this pair
\* that returned true.
JustRevoked(credentialSetId, merkleRoot) ==
    /\ last.op = "revokeTrustedRoot"
    /\ last.result
    /\ last.credentialSetId = credentialSetId
    /\ last.merkleRoot = merkleRoot

\* A call of verifyProof as it starts: the proof, and what the verifier could
\* read at that moment (the clock, the registry entry of the proof's pair,
\* the verification key).  isTrusted and groth16 record what the two calls
\* made on the way returned ("" while not called).
NewCall(proof, via) ==
    [via |-> via, proof |-> proof, checkedAt |-> now,
     entry |-> RegistryEntry(proof.metadata.credentialSetId, proof.metadata.merkleRoot),
     afterRevoke |-> JustRevoked(proof.metadata.credentialSetId, proof.metadata.merkleRoot),
     vkey |-> verificationKey,
     isTrusted |-> "", groth16 |-> ""]

\* verifyProof has returned (or thrown): the call and its result become the
\* last completed call.
Completed(call, valid, errors) ==
    /\ ver' = Idle
    /\ last' = [op |-> "verifyProof",
                call |-> call,
                outcome |-> IF createResultThrows(call.proof) THEN "threw" ELSE "returned",
                result |-> createResult(valid, call.proof, errors)]

\* verifyProofBegin with stages 2 and 3 exchanged.
verifyProofBegin_trustFirst(proof, via) ==
    LET structureError == validateProofStructure(proof)
        call == NewCall(proof, via)
        isTrusted == isTrustedRoot(proof.metadata.credentialSetId, proof.metadata.merkleRoot)
        trustCall == [call EXCEPT !.isTrusted = IF isTrusted THEN "true" ELSE "false"]
    IN  IF structureError # ""
        THEN Completed(call, FALSE, <<structureError>>)
        ELSE IF ~isTrusted
        THEN Completed(trustCall, FALSE, <<"Untrusted credential set root">>)
        ELSE IF proofExpired(proof)
        THEN Completed(trustCall, FALSE, <<"Proof has expired">>)
        ELSE IF verificationKey = NullKey
        THEN Completed(trustCall, FALSE, <<"Verifier not initialized">>)
        ELSE /\ ver' = [pc |-> "awaitGroth", call |-> trustCall]
             /\ last' = [op |-> "verifyProof.start"]

\* verifyProof up to its first real suspension: stages 1 to 3, the check of
\* the verification key and the call of groth16.verify.  The await on
\* isTrustedRoot is on a promise that is already resolved (isTrustedRoot
\* awaits nothing), so verifyProof resumes in the same microtask checkpoint,
\* before any other request handler, timer or I/O callback can run.
verifyProofBegin(proof, via) ==
    LET structureError == validateProofStructure(proof)
        call == NewCall(proof, via)
        isTrusted == isTrustedRoot(proof.metadata.credentialSetId, proof.metadata.merkleRoot)
        trustCall == [call EXCEPT !.isTrusted = IF isTrusted THEN "true" ELSE "false"]
    IN  IF structureError # ""
        THEN Completed(call, FALSE, <<structureError>>)
        ELSE IF proofExpired(proof)
        THEN Completed(call, FALSE, <<"Proof has expired">>)
        ELSE IF ~isTrusted
        THEN Completed(trustCall, FALSE, <<"Untrusted credential set root">>)
        ELSE IF verificationKey = NullKey
        THEN Completed(trustCall, FALSE, <<"Verifier not initialized">>)
        ELSE /\ ver' = [pc |-> "awaitGroth", call |-> trustCall]
             /\ last' = [op |-> "verifyProof.start"]

\* groth16.verify settles and verifyProof returns.
verifyProofAfterGroth ==
    /\ ver.pc = "awaitGroth"
    /\ LET isValid == Groth16Verify(ver.call.vkey, ver.call.proof.publicSignals.list,
                                    ver.call.proof.proof)
           call == [ver.call EXCEPT !.groth16 = isValid]
       IN  IF isValid = "throw"
           THEN Completed(call, FALSE, <<"Proof verification error">>)
           ELSE IF isValid = "false"
           THEN Completed(call, FALSE, <<"Invalid cryptographic proof">>)
           ELSE Completed(call, TRUE, <<>>)
    /\ UNCHANGED <<now, trustedRoots, rootMetadata, verificationKey, setVars, proverVars>>

\* The caller of the verifier submits one proof at a time: the next one once
\* the answer to the previous one has been read.
AnswerPending == last.op \in {"verifyProof", "POST /api/verify"}

ReadAnswer ==
    /\ AnswerPending
    /\ last' = [op |-> "none"]
    /\ UNCHANGED <<now, trustedRoots, rootMetadata, verificationKey, ver, setVars, proverVars>>

\* ZKVerifier.verifyProof called directly with a ZKProof.
verifyProof(proof) ==
    /\ ver.pc = "idle"
    /\ ~AnswerPending
    /\ verifyProofBegin(proof, "direct")
    /\ UNCHANGED <<now, trustedRoots, rootMetadata, verificationKey, setVars, proverVars>>

----------------------------------------------------------------------------
(* ProofSerializer.validate / deserialize and ProofValidator. *)

\* A JSON string field of the request body: isString is FALSE when the field
\* is absent or of another type.
Str(v) == [isString |-> TRUE, s |-> v]

\* new Date(isoString): timestamps on the wire are digit strings in the model
\* (the millisecond count); anything else parses to an Invalid Date.
\* An instant before the clock's zero is written with a minus sign.
IsTimeString(s) ==
    \/ IsDecimal(s)
    \/ Len(s) > 1 /\ s[1] = "-" /\ IsDecimal(Tail(s))

newDate(s) ==
    IF IsDecimal(s) THEN D(ParseDecimal(s))
    ELSE IF IsTimeString(s) THEN D(0 - ParseDecimal(Tail(s)))
    ELSE InvalidDate

\* toISOString keeping tens of milliseconds only.
toISOString_coarse(d) ==
    IF d.ms < 0 THEN <<"-">> \o ToDecimal(((0 - d.ms) \div 10) * 10)
    ELSE ToDecimal((d.ms \div 10) * 10)

\* date.toISOString()
toISOString(d) == IF d.ms < 0 THEN <<"-">> \o ToDecimal(0 - d.ms) ELSE ToDecimal(d.ms)

\* JSON.stringify(proof.proof): the text of the body, which JSON.parse reads
\* back as the same object; undefined has no text.
JSONstringify(body) ==
    IF body.kind = "missing"
    THEN [type |-> "undefined", parses |-> FALSE, val |-> MissingBody]
    ELSE [type |-> "string", parses |-> TRUE, val |-> body]

\* ProofSerializer.serialize throws (PROOF_GENERATION_FAILED) when a field it
\* reads is missing or toISOString throws its RangeError on an Invalid Date.
serializeThrows(proof) ==
    \/ proof.isNull
    \/ ~proof.publicSignals.present
    \/ ~proof.metadata.present
    \/ ~proof.metadata.timestamp.valid
    \/ ~proof.metadata.expiresAt.valid

\* ProofSerializer.serialize
serialize(proof) ==
    [isObject |-> TRUE,
     proof |-> JSONstringify(proof.proof),
     publicSignals |-> [isArray |-> TRUE, list |-> proof.publicSignals.list],
     metadata |->
        [isObject |-> TRUE,
         proofId |-> Str(proof.metadata.proofId),
         credentialSetId |-> Str(proof.metadata.credentialSetId),
         merkleRoot |-> Str(proof.metadata.merkleRoot),
         timestamp |-> Str(toISOString(proof.metadata.timestamp)),
         expiresAt |-> Str(toISOString(proof.metadata.expiresAt)),
         version |-> Str(proof.metadata.version),
         circuitId |-> Str(proof.metadata.circuitId)]]

\* ProofSerializer.validate
validate(serialized) ==
    /\ serialized.isObject
    /\ serialized.proof.type \in {"string", "object"}
    /\ serialized.publicSignals.isArray
    /\ serialized.metadata.isObject
    /\ serialized.metadata.proofId.isString
    /\ serialized.metadata.credentialSetId.isString
    /\ serialized.metadata.merkleRoot.isString
    /\ serialized.metadata.timestamp.isString
    /\ serialized.metadata.expiresAt.isString
    /\ serialized.metadata.version.isString
    /\ serialized.metadata.circuitId.isString

\* ProofSerializer.deserialize throws when the proof string is not JSON.
deserializeThrows(serialized) ==
    serialized.proof.type = "string" /\ ~serialized.proof.parses

deserialize(serialized) ==
    [isNull |-> FALSE,
     proof |-> serialized.proof.val,
     publicSignals |-> Signals(serialized.publicSignals.list),
     metadata |->
        [present |-> TRUE,
         proofId |-> serialized.metadata.proofId.s,
         credentialSetId |-> serialized.metadata.credentialSetId.s,
         merkleRoot |-> serialized.metadata.merkleRoot.s,
         timestamp |-> newDate(serialized.metadata.timestamp.s),
         expiresAt |-> newDate(serialized.metadata.expiresAt.s),
         version |-> serialized.metadata.version.s,
         circuitId |-> serialized.metadata.circuitId.s]]

\* The messages of those checks that fail, in order.
RECURSIVE Failed(_)
Failed(checks) ==
    IF Len(checks) = 0 THEN <<>>
    ELSE IF checks[1][1] THEN <<checks[1][2]>> \o Failed(Tail(checks))
    ELSE Failed(Tail(checks))

\* ProofValidator.preValidate
preValidate(proof) ==
    Failed(<<
        <<proof.proof.kind = "missing", "Missing proof data">>,
        <<~proof.publicSignals.present \/ Len(proof.publicSignals.list) = 0,
          "Missing public signals">>,
        <<~proof.metadata.present, "Missing proof metadata">>,
        <<proof.metadata.present /\ proof.metadata.proofId = "", "Missing proof ID">>,
        <<proof.metadata.present /\ proof.metadata.credentialSetId = "",
          "Missing credential set ID">>,
        <<proof.metadata.present /\ Len(proof.metadata.merkleRoot) = 0,
          "Missing Merkle root">>,
        <<proof.metadata.present /\ proof.metadata.circuitId = "", "Missing circuit ID">>,
        <<proof.metadata.present /\ DateGt(proof.metadata.timestamp, D(now)),
          "Proof timestamp is in the future">>,
        <<proof.metadata.present
            /\ DateLe(proof.metadata.expiresAt, proof.metadata.timestamp),
          "Proof expiration must be after timestamp">>
    >>)

\* A proof is serialized and the result validated and deserialized, as the
\* round-trip tests do.
serializeThenDeserialize(proof) ==
    /\ last' =
          IF serializeThrows(proof)
          THEN [op |-> "serialize", proof |-> proof, threw |-> "PROOF_GENERATION_FAILED"]
          ELSE IF deserializeThrows(serialize(proof))
          THEN [op |-> "serialize", proof |-> proof, threw |-> "INVALID_PROOF_STRUCTURE"]
          ELSE [op |-> "serialize", proof |-> proof, threw |-> "",
                serialized |-> serialize(proof),
                validated |-> validate(serialize(proof)),
                deserialized |-> deserialize(serialize(proof))]
    /\ UNCHANGED <<now, trustedRoots, rootMetadata, verificationKey, ver, setVars, proverVars>>

----------------------------------------------------------------------------
(* POST /api/verify: the route's validators, then VerifyController.verifyProof. *)

\* express-validator's isISO8601(): the calendar forms Date parses, and the
\* ISO 8601 week dates that Date does not parse.
WeekDate == <<"W">>
isISO8601(s) == IsTimeString(s) \/ s = WeekDate

\* The validator chain of the route: TRUE when validationMiddleware finds a
\* failure and passes a ValidationError on.
routeValidationFails(body) ==
    \/ ~body.isObject
    \/ body.proof.type \notin {"string", "object"}
    \/ ~body.publicSignals.isArray
    \/ ~body.metadata.isObject
    \/ ~body.metadata.proofId.isString
    \/ ~body.metadata.credentialSetId.isString
    \/ ~body.metadata.merkleRoot.isString
    \/ ~(body.metadata.timestamp.isString /\ isISO8601(body.metadata.timestamp.s))
    \/ ~(body.metadata.expiresAt.isString /\ isISO8601(body.metadata.expiresAt.s))
    \/ ~body.metadata.version.isString
    \/ ~body.metadata.circuitId.isString

\* The request is answered without the verifier being called.
Answered(body, status, code, details) ==
    /\ last' = [op |-> "POST /api/verify", body |-> body, at |-> now,
                status |-> status, code |-> code, details |-> details]
    /\ UNCHANGED ver

postVerify(body) ==
    /\ ver.pc = "idle"
    /\ ~AnswerPending
    /\ IF routeValidationFails(body)
       THEN Answered(body, 400, "VALIDATION_ERROR", <<>>)
       ELSE IF ~validate(body) \/ deserializeThrows(body)
       THEN Answered(body, 400, "INVALID_PROOF_STRUCTURE", <<>>)
       ELSE IF preValidate(deserialize(body)) # <<>>
       THEN Answered(body, 400, "INVALID_PROOF_STRUCTURE", preValidate(deserialize(body)))
       ELSE verifyProofBegin(deserialize(body), "endpoint")
    /\ UNCHANGED <<now, trustedRoots, rootMetadata, verificationKey, setVars, proverVars>>

----------------------------------------------------------------------------
(* Inputs. *)

RootA == Rep("a", HexLen)
RootB == Rep("b", HexLen)
RootUpper == Rep("A", HexLen)
RootShort == Rep("a", HexLen - 1)
RootNotHex == Rep("g", HexLen)

\* The roots as field elements, and as the decimal strings of publicSignals.
FieldA == HexToInt(RootA)
FieldB == HexToInt(RootB)

B2N(b) == IF b THEN 1 ELSE 0

\* The entry an administrator registers at this moment (addedAt: new Date()).
TrustedRoot(credentialSetId, merkleRoot, expiresAt) ==
    [credentialSetId |-> credentialSetId, merkleRoot |-> merkleRoot,
     addedAt |-> now, expiresAt |-> expiresAt]

ExpiryChoices == {NoExpiry} \cup {ExpiresAtMs(t) : t \in 1..(MaxTime - 1)}

\* Registry calls made while proofs are being verified.
PipelineAdds ==
    {[TrustedRoot("s1", RootA, e) EXCEPT !.addedAt = 0] : e \in ExpiryChoices}
        \cup {[TrustedRoot(sr[1], sr[2], NoExpiry) EXCEPT !.addedAt = 0] :
                 sr \in {<<"s2", RootB>>, <<"", RootA>>, <<"s1", RootNotHex>>}}

PipelineRevokes == {<<"s1", RootA>>, <<"s2", RootA>>}

\* Registry calls of the registry taken alone: two roots of one set with
\* every expiry, and the entries addTrustedRoot refuses.
RegistryAdds ==
    {TrustedRoot("s1", r, e) : r \in {RootA, RootUpper}, e \in ExpiryChoices}
        \cup {TrustedRoot(sr[1], sr[2], NoExpiry) :
                 sr \in {<<"", RootA>>, <<"s1", <<>>>>, <<"s1", RootShort>>,
                         <<"s1", RootNotHex>>}}

RegistryPairs == {<<"s1", RootA>>, <<"s1", RootUpper>>, <<"s1", RootB>>, <<"s2", RootA>>}

\* Administrator calls on several sets: three pairs over two sets with every
\* expiry, the entries addTrustedRoot refuses, and a revoke on a set that was
\* never registered.
BookkeepingPairs == {<<"s1", RootA>>, <<"s1", RootB>>, <<"s2", RootA>>}

BookkeepingAdds ==
    {[TrustedRoot(pair[1], pair[2], e) EXCEPT !.addedAt = 0] :
        pair \in BookkeepingPairs, e \in ExpiryChoices}
        \cup {[TrustedRoot(sr[1], sr[2], NoExpiry) EXCEPT !.addedAt = 0] :
                 sr \in {<<"", RootA>>, <<"s1", RootNotHex>>}}

BookkeepingRevokes == BookkeepingPairs \cup {<<"s3", RootA>>}

\* Proofs handed to ZKVerifier.verifyProof.
BodyValues == {MissingBody, MalformedBody, Pi(FieldA), Pi(FieldB)}

SignalValues ==
    {NoSignals, Signals(<<>>), Signals(<<ToDecimal(FieldA)>>), Signals(<<ToDecimal(FieldB)>>)}

\* ZKVerifier never reads timestamp, circuitId or version: one value each.
TimestampValues == {D(MaxTime)}

ExpiresAtValues == {D(t) : t \in 1..(MaxTime - 1)} \cup {D(MaxTime + 1), InvalidDate}

MetadataValues ==
    {NoMetadata} \cup
    [present : {TRUE}, proofId : {"", "p1"}, credentialSetId : {"", "s1", "s2"},
     merkleRoot : {<<>>, RootA, RootB}, timestamp : TimestampValues,
     expiresAt : ExpiresAtValues, version : {"1.0.0"},
     circuitId : {"credential-v1.0.0"}]

MetadataDefects(m) ==
    IF ~m.present THEN 1
    ELSE B2N(m.proofId = "") + B2N(m.credentialSetId = "") + B2N(Len(m.merkleRoot) = 0)
         + B2N(~m.timestamp.valid) + B2N(~m.expiresAt.valid) + B2N(m.circuitId = "")

ProofDefects(p) ==
    B2N(p.proof.kind # "groth16")
    + B2N(~p.publicSignals.present \/ Len(p.publicSignals.list) = 0)
    + MetadataDefects(p.metadata)

\* Well-formed proofs: an argument for RootA or RootB with the signal of its
\* own root, or an argument for RootA beside the signal of RootB.  Proofs with
\* defects are proofs for RootA with up to MaxDefects fields broken.
DirectProofs ==
    {NullProof} \cup
    {p \in [isNull : {FALSE}, proof : BodyValues, publicSignals : SignalValues,
            metadata : MetadataValues] :
        /\ ProofDefects(p) <= MaxDefects
        /\ p.proof = Pi(FieldB) => p.publicSignals = Signals(<<ToDecimal(FieldB)>>)
        /\ ProofDefects(p) > 0 =>
              /\ p.proof # Pi(FieldB)
              /\ p.publicSignals # Signals(<<ToDecimal(FieldB)>>)}

\* Request bodies posted to /api/verify.
NotAString == [isString |-> FALSE, s |-> ""]
NotAStringSeq == [isString |-> FALSE, s |-> <<>>]

WireBodyValues ==
    {[type |-> "string", parses |-> TRUE, val |-> b] : b \in {Pi(FieldA), MalformedBody}}
    \cup {[type |-> "object", parses |-> TRUE, val |-> MissingBody],
          [type |-> "string", parses |-> FALSE, val |-> MissingBody],
          [type |-> "number", parses |-> FALSE, val |-> MissingBody]}

WireSignalValues ==
    {[isArray |-> TRUE, list |-> l] : l \in {<<>>, <<ToDecimal(FieldA)>>}}
    \cup {[isArray |-> FALSE, list |-> <<>>]}

\* On the wire: timestamps Date parses, a week date, and text that is no date.
WireTimestampValues ==
    {Str(toISOString(d)) : d \in {D(0), D(MaxTime)}} \cup {Str(WeekDate), Str(<<"x">>)}

WireExpiresAtValues ==
    {Str(toISOString(d)) : d \in {D(t) : t \in 1..(MaxTime - 1)} \cup {D(MaxTime + 1)}}
    \cup {Str(WeekDate), Str(<<"x">>)}

WireMetadataValues ==
    [isObject : {TRUE}, proofId : {Str(""), Str("p1")},
     credentialSetId : {Str(""), Str("s1")},
     merkleRoot : {Str(<<>>), Str(RootA)},
     timestamp : WireTimestampValues, expiresAt : WireExpiresAtValues,
     version : {Str("1.0.0"), NotAString},
     circuitId : {Str(""), Str("credential-v1.0.0")}]

WireDefects(w) ==
    B2N(~(w.proof.type = "string" /\ w.proof.parses /\ w.proof.val.kind = "groth16"))
    + B2N(~w.publicSignals.isArray \/ Len(w.publicSignals.list) = 0)
    + B2N(w.metadata.proofId.s = "") + B2N(w.metadata.credentialSetId.s = "")
    + B2N(Len(w.metadata.merkleRoot.s) = 0)
    + B2N(~IsDecimal(w.metadata.timestamp.s)) + B2N(~IsDecimal(w.metadata.expiresAt.s))
    + B2N(~w.metadata.version.isString) + B2N(w.metadata.circuitId.s = "")

WireObjects ==
    [isObject : {TRUE}, proof : WireBodyValues, publicSignals : WireSignalValues,
     metadata : WireMetadataValues]

\* A body that is not an object: null, a number, a string.
NotAnObject == [(CHOOSE w \in WireObjects : WireDefects(w) = 0) EXCEPT !.isObject = FALSE]

RequestBodies == {NotAnObject} \cup {w \in WireObjects : WireDefects(w) <= MaxDefects}

----------------------------------------------------------------------------
(* Field elements and the Merkle tree (PoseidonManager, SecureMerkleTree).   *)
(* A field element is a natural number; a 32-byte Buffer is the number it    *)
(* spells big-endian, so Buffer.compare is the order of the numbers.  The    *)
(* two hash functions are taken as collision-free: SHA-256 (mod p) of a      *)
(* string is the number that spells its characters, Poseidon of a pair is    *)
(* the Cantor number of the pair.                                            *)

\* Width of a hash in hex characters: padStart(64, '0') in the source.
FieldHexLen == 2

\* The characters of credentials.
CredentialChars == <<"A", "B", "C", "x", " ">>

\* createHash('sha256').update(str).digest('hex') read as a number, % p
RECURSIVE stringToField(_)
stringToField(str) ==
    IF Len(str) = 0 THEN 0
    ELSE (Len(CredentialChars) + 1) * stringToField(SubSeq(str, 1, Len(str) - 1))
            + IndexIn(CredentialChars, str[Len(str)])

\* poseidon([left, right])
hashLeftRight(left, right) == ((left + right) * (left + right + 1)) \div 2 + right

\* n.toString(16)
RECURSIVE ToHex(_)
ToHex(n) ==
    IF n < 16 THEN <<(Digits \o LowerHexLetters)[n + 1]>>
    ELSE Append(ToHex(n \div 16), (Digits \o LowerHexLetters)[(n % 16) + 1])

\* s.padStart(n, '0')
padStart(s, n) == IF Len(s) >= n THEN s ELSE Rep("0", n - Len(s)) \o s

\* Buffer.toString('hex') of a hash, and hash.toString(16).padStart(64, '0')
FieldToHex(n) == padStart(ToHex(n), FieldHexLen)

\* BigInt('0x' + s) throws a SyntaxError unless s is one or more hex digits.
BigIntThrows(s) == Len(s) = 0 \/ \E i \in 1..Len(s) : ~IsHexChar(s[i])

\* merkletreejs with sortPairs: the pair is sorted, concatenated and hashed
\* by the function given to the constructor.
hashPair(a, b) == IF a <= b THEN hashLeftRight(a, b) ELSE hashLeftRight(b, a)

\* nextLayer hashing a last node without a partner with itself.
nextLayer_duplicateOdd(nodes) ==
    [k \in 1..((Len(nodes) + 1) \div 2) |->
        IF 2 * k <= Len(nodes) THEN hashPair(nodes[2 * k - 1], nodes[2 * k])
        ELSE hashPair(nodes[2 * k - 1], nodes[2 * k - 1])]

\* merkletreejs: one layer from the one below; a last node without a partner
\* is carried up as it is.
nextLayer(nodes) ==
    [k \in 1..((Len(nodes) + 1) \div 2) |->
        IF 2 * k <= Len(nodes) THEN hashPair(nodes[2 * k - 1], nodes[2 * k])
        ELSE nodes[2 * k - 1]]

\* merkletreejs: the layers, from the leaves to the root.
RECURSIVE createHashes(_)
createHashes(nodes) ==
    IF Len(nodes) <= 1 THEN <<nodes>>
    ELSE <<nodes>> \o createHashes(nextLayer(nodes))

\* new SecureMerkleTree(leaves): the leaves as field elements and the layers
\* built over them.
SecureMerkleTree(leafStrings) ==
    LET leaves == [i \in 1..Len(leafStrings) |-> stringToField(leafStrings[i])]
    IN  [leaves |-> leaves, layers |-> createHashes(leaves)]

\* tree.getRoot().toString('hex')
getRoot(tree) == FieldToHex(tree.layers[Len(tree.layers)][1])

\* merkletreejs getProof(leaf): the position of the leaf is found by value
\* (the last equal leaf wins), then one sibling is taken from every layer in
\* which the node has a partner.  index counts from 0.
RECURSIVE treeProofFrom(_, _, _)
treeProofFrom(layers, k, index) ==
    IF k > Len(layers) THEN <<>>
    ELSE LET isRightNode == index % 2 = 1
             pairIndex == IF isRightNode THEN index - 1 ELSE index + 1
             here == IF pairIndex < Len(layers[k])
                     THEN <<[position |-> IF isRightNode THEN "left" ELSE "right",
                             data |-> layers[k][pairIndex + 1]]>>
                     ELSE <<>>
         IN  here \o treeProofFrom(layers, k + 1, index \div 2)

treeGetProof(tree, leaf) ==
    LET found == {i \in 1..Len(tree.leaves) : tree.leaves[i] = leaf}
    IN  IF found = {} THEN <<>>
        ELSE treeProofFrom(tree.layers, 1,
                           (CHOOSE i \in found : \A j \in found : j <= i) - 1)

\* SecureMerkleTree.getProof(leafIndex), leafIndex counting from 0 and within
\* the leaves.
getProof(tree, leafIndex) ==
    LET leaf == tree.leaves[leafIndex + 1]
        proof == treeGetProof(tree, leaf)
    IN  [leaf |-> FieldToHex(leaf),
         leafIndex |-> leafIndex,
         root |-> getRoot(tree),
         siblings |-> [i \in 1..Len(proof) |->
                          [hash |-> FieldToHex(proof[i].data),
                           position |-> proof[i].position]],
         pathIndices |-> [i \in 1..Len(proof) |->
                             IF proof[i].position = "right" THEN 1 ELSE 0]]

\* The loop of SecureMerkleTree.verify over the siblings.
RECURSIVE foldSiblings(_, _)
foldSiblings(currentHash, siblings) ==
    IF Len(siblings) = 0 THEN currentHash
    ELSE LET siblingHash == HexToInt(siblings[1].hash)
             left == IF currentHash <= siblingHash THEN currentHash ELSE siblingHash
             right == IF currentHash <= siblingHash THEN siblingHash ELSE currentHash
         IN  foldSiblings(hashLeftRight(left, right), Tail(siblings))

\* SecureMerkleTree.verify(proof): "true", "false", or "throw" when a BigInt
\* conversion throws.
verify(proof) ==
    IF \/ BigIntThrows(proof.leaf)
       \/ \E i \in 1..Len(proof.siblings) : BigIntThrows(proof.siblings[i].hash)
       \/ BigIntThrows(proof.root)
    THEN "throw"
    ELSE IF foldSiblings(HexToInt(proof.leaf), proof.siblings) = HexToInt(proof.root)
    THEN "true"
    ELSE "false"

----------------------------------------------------------------------------
(* Credential validation (validateCredential, validateCredentials) and the  *)
(* credential set manager (CredentialSetManager).  A credential is a         *)
(* sequence of characters; the static types keep other values out.           *)

\* CREDENTIAL_CONSTRAINTS, scaled down: 1024 credentials per set and 256
\* characters per credential in the source.
MAX_CREDENTIALS_PER_SET == 3
MAX_CREDENTIAL_LENGTH == 2
MIN_CREDENTIAL_LENGTH == 1

\* How many credential sets are ever created.
MaxSets == 2

\* credential.trim()
RECURSIVE trimStart(_)
trimStart(s) == IF Len(s) > 0 /\ s[1] = " " THEN trimStart(Tail(s)) ELSE s

RECURSIVE trimEnd(_)
trimEnd(s) ==
    IF Len(s) > 0 /\ s[Len(s)] = " " THEN trimEnd(SubSeq(s, 1, Len(s) - 1)) ELSE s

trim(s) == trimEnd(trimStart(s))

NoError == [throws |-> FALSE, code |-> "", message |-> ""]
ValidationError(message) == [throws |-> TRUE, code |-> "VALIDATION_ERROR", message |-> message]
CredentialError(code, message) == [throws |-> TRUE, code |-> code, message |-> message]

\* validateCredential: the error it throws, NoError when it returns.
validateCredential(credential) ==
    IF Len(trim(credential)) = 0
    THEN ValidationError("cannot be empty")
    ELSE IF Len(credential) > MAX_CREDENTIAL_LENGTH
    THEN ValidationError("exceeds maximum length")
    ELSE IF Len(credential) < MIN_CREDENTIAL_LENGTH
    THEN ValidationError("below minimum length")
    ELSE NoError

\* validateCredentials without the check for duplicates.
validateCredentials_duplicatesPass(credentials) ==
    IF Len(credentials) = 0
    THEN ValidationError("Credentials array cannot be empty")
    ELSE IF Len(credentials) > MAX_CREDENTIALS_PER_SET
    THEN ValidationError("Maximum credentials per set")
    ELSE LET failing == {i \in 1..Len(credentials) :
                            validateCredential(credentials[i]).throws}
         IN  IF failing = {} THEN NoError
             ELSE validateCredential(
                      credentials[CHOOSE i \in failing : \A j \in failing : i <= j])

\* validateCredentials: the error it throws, NoError when it returns.
validateCredentials(credentials) ==
    IF Len(credentials) = 0
    THEN ValidationError("Credentials array cannot be empty")
    ELSE IF Len(credentials) > MAX_CREDENTIALS_PER_SET
    THEN ValidationError("Maximum credentials per set")
    ELSE IF Cardinality(Range(credentials)) # Len(credentials)
    THEN ValidationError("Duplicate credentials are not allowed")
    ELSE LET failing == {i \in 1..Len(credentials) :
                            validateCredential(credentials[i]).throws}
         IN  IF failing = {} THEN NoError
             ELSE validateCredential(
                      credentials[CHOOSE i \in failing : \A j \in failing : i <= j])

\* The n-th identifier that uuidv4() hands out; Uuid(0) is an identifier it
\* never hands out.
Uuid(n) == <<"uuid", n>>

\* An array object: the items it holds now.  A frozen copy holds its own
\* items for ever; the array of the caller holds what the caller last put
\* into it.
FrozenCopy(array) == [shared |-> FALSE, items |-> array]
CallerOwned(array) == [shared |-> TRUE, items |-> array]
Items(arrayObject) == IF arrayObject.shared THEN callerArray ELSE arrayObject.items

\* createCredentialSet keeping the array it was given.
createCredentialSet_keepsArray(credentials) ==
    LET err == validateCredentials(credentials)
        tree == SecureMerkleTree(credentials)
        id == Uuid(uuidCount + 1)
        credentialSet == [id |-> id,
                          credentials |-> CallerOwned(credentials),
                          merkleRoot |-> getRoot(tree),
                          createdAt |-> now,
                          version |-> "1.0.0"]
    IN  /\ IF err.throws
           THEN /\ UNCHANGED <<credentialSets, uuidCount, callerArray>>
                /\ last' = [op |-> "createCredentialSet", credentials |-> credentials,
                            error |-> err, id |-> Uuid(0)]
           ELSE /\ uuidCount < MaxSets
                /\ uuidCount' = uuidCount + 1
                /\ callerArray' = credentials
                /\ credentialSets' =
                     [k \in DOMAIN credentialSets \cup {id} |->
                         IF k = id THEN [credentialSet |-> credentialSet, tree |-> tree]
                         ELSE credentialSets[k]]
                /\ last' = [op |-> "createCredentialSet", credentials |-> credentials,
                            error |-> NoError, id |-> id]
        /\ UNCHANGED <<now, trustedRoots, rootMetadata, verificationKey, ver, proverVars>>

\* createCredentialSet(name, credentials): the caller keeps the array it
\* passed; the stored set holds a frozen copy of it.
createCredentialSet(credentials) ==
    LET err == validateCredentials(credentials)
        tree == SecureMerkleTree(credentials)
        id == Uuid(uuidCount + 1)
        credentialSet == [id |-> id,
                          credentials |-> FrozenCopy(credentials),
                          merkleRoot |-> getRoot(tree),
                          createdAt |-> now,
                          version |-> "1.0.0"]
    IN  /\ IF err.throws
           THEN /\ UNCHANGED <<credentialSets, uuidCount, callerArray>>
                /\ last' = [op |-> "createCredentialSet", credentials |-> credentials,
                            error |-> err, id |-> Uuid(0)]
           ELSE /\ uuidCount < MaxSets
                /\ uuidCount' = uuidCount + 1
                /\ callerArray' = credentials
                /\ credentialSets' =
                     [k \in DOMAIN credentialSets \cup {id} |->
                         IF k = id THEN [credentialSet |-> credentialSet, tree |-> tree]
                         ELSE credentialSets[k]]
                /\ last' = [op |-> "createCredentialSet", credentials |-> credentials,
                            error |-> NoError, id |-> id]
        /\ UNCHANGED <<now, trustedRoots, rootMetadata, verificationKey, ver, proverVars>>

\* The caller changes the array it passed to createCredentialSet: it writes
\* another first item, or empties the array.
callerMutatesArray ==
    /\ Len(callerArray) > 0
    /\ \/ callerArray' = [callerArray EXCEPT ![1] = <<"x">>]
       \/ callerArray' = <<>>
    /\ callerArray' # callerArray
    /\ last' = [op |-> "callerMutatesArray"]
    /\ UNCHANGED <<now, trustedRoots, rootMetadata, verificationKey, ver,
                   credentialSets, uuidCount, proverVars>>

\* credentials.indexOf(credential), counting from 0; 0 - 1 is written NotFound.
NotFound == MAX_CREDENTIALS_PER_SET + 1
indexOf(array, item) ==
    IF \E i \in 1..Len(array) : array[i] = item
    THEN (CHOOSE i \in 1..Len(array) :
             array[i] = item /\ \A j \in 1..(i - 1) : array[j] # item) - 1
    ELSE NotFound

NoProof == [leaf |-> <<>>, leafIndex |-> 0, root |-> <<>>,
            siblings |-> <<>>, pathIndices |-> <<>>]

\* What generateProof throws or returns.
generateProofOutcome(setId, credential) ==
    IF setId \notin DOMAIN credentialSets
    THEN [error |-> CredentialError("CREDENTIAL_SET_NOT_FOUND",
                                    "Credential set not found: setId"),
          proof |-> NoProof]
    ELSE LET data == credentialSets[setId]
             index == indexOf(Items(data.credentialSet.credentials), credential)
         IN  IF index = NotFound
             THEN [error |-> CredentialError("CREDENTIAL_NOT_FOUND", "Invalid credential"),
                   proof |-> NoProof]
             ELSE IF index >= Len(data.tree.leaves)
             THEN [error |-> [throws |-> TRUE, code |-> "", message |-> "Invalid leaf index"],
                   proof |-> NoProof]
             ELSE [error |-> NoError, proof |-> getProof(data.tree, index)]

generateProof(setId, credential) ==
    /\ last' = [op |-> "generateProof", setId |-> setId, credential |-> credential,
                error |-> generateProofOutcome(setId, credential).error,
                proof |-> generateProofOutcome(setId, credential).proof]
    /\ UNCHANGED <<now, trustedRoots, rootMetadata, verificationKey, ver, setVars, proverVars>>

\* verifyCredential comparing no roots.
verifyCredentialOutcome_pathOnly(setId, proof) ==
    IF setId \notin DOMAIN credentialSets
    THEN [result |-> "throw", verifyCalled |-> FALSE]
    ELSE [result |-> verify(proof), verifyCalled |-> TRUE]

\* What verifyCredential returns ("true", "false") or that it throws, and
\* whether it called SecureMerkleTree.verify.
verifyCredentialOutcome(setId, proof) ==
    IF setId \notin DOMAIN credentialSets
    THEN [result |-> "throw", verifyCalled |-> FALSE]
    ELSE IF proof.root # credentialSets[setId].credentialSet.merkleRoot
    THEN [result |-> "false", verifyCalled |-> FALSE]
    ELSE [result |-> verify(proof), verifyCalled |-> TRUE]

verifyCredential(setId, proof) ==
    /\ last' = [op |-> "verifyCredential", setId |-> setId, proof |-> proof,
                result |-> verifyCredentialOutcome(setId, proof).result,
                verifyCalled |-> verifyCredentialOutcome(setId, proof).verifyCalled]
    /\ UNCHANGED <<now, trustedRoots, rootMetadata, verificationKey, ver, setVars, proverVars>>

\* getCredentialSet: the stored set, or Undefined.
Undefined == [id |-> Uuid(0)]
getCredentialSet(setId) ==
    IF setId \in DOMAIN credentialSets THEN credentialSets[setId].credentialSet
    ELSE Undefined

getAllSets == {credentialSets[k].credentialSet : k \in DOMAIN credentialSets}

getSetCount == Cardinality(DOMAIN credentialSets)

deleteCredentialSet(setId) ==
    LET existed == setId \in DOMAIN credentialSets
    IN  /\ credentialSets' = [k \in DOMAIN credentialSets \ {setId} |-> credentialSets[k]]
        /\ last' = [op |-> "deleteCredentialSet", setId |-> setId, result |-> existed]
        /\ UNCHANGED <<now, trustedRoots, rootMetadata, verificationKey, ver,
                       uuidCount, callerArray, proverVars>>

\* SecureMerkleTree.verify called on a proof object.
StaticVerify(proof) ==
    /\ last' = [op |-> "SecureMerkleTree.verify", proof |-> proof, result |-> verify(proof)]
    /\ UNCHANGED <<now, trustedRoots, rootMetadata, verificationKey, ver, setVars, proverVars>>

----------------------------------------------------------------------------
(* Inputs of the credential set manager and of SecureMerkleTree.verify. *)

CredA == <<"A">>
CredB == <<"B">>
CredC == <<"C">>
BlankCredential == <<" ", " ">>
EmptyCredential == <<>>
LongCredential == Rep("x", MAX_CREDENTIAL_LENGTH + 1)

\* n credentials, all different and all well formed.
DistinctCredentials(n) ==
    SubSeq(<<CredA, CredB, CredC, <<"x">>, <<"A", "A">>, <<"A", "B">>>>, 1, n)

\* Lists that createCredentialSet accepts: one, two and three credentials
\* (three leave a node without a partner), and two lists of the same
\* credentials in different orders.
AcceptedLists == {<<CredA>>, <<CredA, CredB>>, <<CredB, CredA>>, <<CredA, CredB, CredC>>}

RejectedLists ==
    {<<>>,
     DistinctCredentials(MAX_CREDENTIALS_PER_SET + 1),
     <<CredA, CredB, CredA>>,
     <<CredA, BlankCredential>>,
     <<EmptyCredential>>,
     <<CredA, LongCredential>>}

CredentialLists == AcceptedLists \cup RejectedLists

\* Credentials asked about: members of some sets and a member of none.
AskedCredentials == {CredA, CredB, CredC, <<"x">>}

SetIds == {Uuid(n) : n \in 0..MaxSets}

\* The witnesses that the stored sets hand out.
StoredWitnesses ==
    {generateProofOutcome(setId, credential).proof :
        <<setId, credential>> \in
            {pair \in (DOMAIN credentialSets) \X AskedCredentials :
                ~generateProofOutcome(pair[1], pair[2]).error.throws}}

\* The witnesses of a list of credentials.
Witnesses(list) ==
    {getProof(SecureMerkleTree(list), i - 1) : i \in 1..Len(list)}

\* One byte of a hex string is one of its characters; a caller can write any
\* character in its place: a hex digit of either case or a character that is
\* no hex digit.
MutationChars ==
    Range(Digits) \cup Range(LowerHexLetters) \cup Range(UpperHexLetters) \cup {"g"}

Mutations(hex) ==
    {[hex EXCEPT ![i] = c] : <<i, c>> \in
        {pair \in (1..Len(hex)) \X MutationChars : hex[pair[1]] # pair[2]}}

TamperedRoot(w) == {[w EXCEPT !.root = h] : h \in Mutations(w.root)}
TamperedLeaf(w) == {[w EXCEPT !.leaf = h] : h \in Mutations(w.leaf)}
TamperedSibling(w) ==
    UNION {{[w EXCEPT !.siblings[i].hash = h] : h \in Mutations(w.siblings[i].hash)} :
              i \in 1..Len(w.siblings)}

Tampered(w) == TamperedRoot(w) \cup TamperedLeaf(w) \cup TamperedSibling(w)

----------------------------------------------------------------------------
(* The configuration (config/environment.ts). *)

\* The depth MAX_MERKLE_DEPTH defaults to: the depth of a tree of
\* MAX_CREDENTIALS_PER_SET leaves.
DefaultMaxMerkleDepth == 2

\* parseInt(value, 10): NaN, or the number read from the longest prefix that
\* is an optional sign followed by digits, after leading white space.
NaN == [nan |-> TRUE, value |-> 0]
Number(n) == [nan |-> FALSE, value |-> n]

RECURSIVE LeadingDigits(_)
LeadingDigits(s) ==
    IF Len(s) = 0 \/ ~IsDigit(s[1]) THEN <<>>
    ELSE <<s[1]>> \o LeadingDigits(Tail(s))

parseInt(value) ==
    LET text == trimStart(value)
        signed == Len(text) > 0 /\ text[1] \in {"-", "+"}
        digits == LeadingDigits(IF signed THEN Tail(text) ELSE text)
    IN  IF Len(digits) = 0 THEN NaN
        ELSE IF signed /\ text[1] = "-" THEN Number(0 - ParseDecimal(digits))
        ELSE Number(ParseDecimal(digits))

\* process.env[key]: undefined, or a string.
Unset == [set |-> FALSE, value |-> <<>>]
EnvString(s) == [set |-> TRUE, value |-> s]

getEnvInt(value, defaultValue) ==
    IF ~value.set THEN defaultValue
    ELSE IF parseInt(value.value).nan THEN defaultValue
    ELSE parseInt(value.value).value

\* The part of config that the prover reads.
AppConfig(env) ==
    [proofExpiryHours |-> getEnvInt(env.PROOF_EXPIRY_HOURS, 24),
     maxMerkleDepth |-> getEnvInt(env.MAX_MERKLE_DEPTH, DefaultMaxMerkleDepth)]

----------------------------------------------------------------------------
(* The circuit (circuits/credential.circom) and snarkjs.groth16.fullProve. *)

\* The number of levels the circuit is compiled for, CredentialProof(20), and
\* the maxDepth of prepareCircuitInputs.
maxDepth == 3

\* Poseidon(1)
poseidon1(x) == hashLeftRight(0, x)

\* MerkleTreeInclusionProof(nLevels): at every level Mux1 orders the two hash
\* inputs by pathIndices[i]: (current, pathElement) for index 0 and
\* (pathElement, current) for index 1.
RECURSIVE MerkleTreeInclusionProof(_, _, _)
MerkleTreeInclusionProof(leaf, pathElements, pathIndices) ==
    IF Len(pathElements) = 0 THEN leaf
    ELSE MerkleTreeInclusionProof(
             IF pathIndices[1] = 0
             THEN hashLeftRight(leaf, pathElements[1])
             ELSE hashLeftRight(pathElements[1], leaf),
             Tail(pathElements), Tail(pathIndices))

\* CredentialProof(nLevels): the root the circuit outputs.
CredentialProof(credential, pathElements, pathIndices) ==
    MerkleTreeInclusionProof(poseidon1(credential), pathElements, pathIndices)

\* The witness calculator refuses an input array that does not have the
\* length of its signal, and fullProve fails when it cannot read the wasm or
\* the zkey.
fullProveThrows(circuitInputs, artifactsReadable) ==
    \/ ~artifactsReadable
    \/ Len(circuitInputs.pathElements) # maxDepth
    \/ Len(circuitInputs.pathIndices) # maxDepth

\* snarkjs.groth16.fullProve(circuitInputs, wasm, zkey): the argument and the
\* public signals, the circuit's one output.
fullProve(circuitInputs) ==
    LET root == CredentialProof(ParseDecimal(circuitInputs.credential),
                                [i \in 1..maxDepth |->
                                    ParseDecimal(circuitInputs.pathElements[i])],
                                circuitInputs.pathIndices)
    IN  [proof |-> Pi(root), publicSignals |-> <<ToDecimal(root)>>]

----------------------------------------------------------------------------
(* ZKProver. *)

\* One hour of the clock: 60 * 60 * 1000 ms.
HourMs == 1

ProofError(code, message) == [throws |-> TRUE, code |-> code, message |-> message]

\* A merkleProof argument that is null.
NullMerkleProof == [isNull |-> TRUE]

\* ZKProver.initialize setting the flag whatever verifySetup finds.
ZKProver_initialize_whateverTheSetup(setupValid) ==
    /\ initialized' = TRUE
    /\ last' = [op |-> "ZKProver.initialize", wasInitialized |-> initialized,
                setupValid |-> setupValid,
                threw |-> IF initialized \/ setupValid THEN ""
                          ELSE "CIRCUIT_INITIALIZATION_FAILED"]
    /\ UNCHANGED <<now, trustedRoots, rootMetadata, verificationKey, ver, setVars, config>>

\* ZKProver.initialize; setupValid is what circuitManager.verifySetup finds
\* on disk (all three files present or not).
ZKProver_initialize(setupValid) ==
    /\ initialized' = (initialized \/ setupValid)
    /\ last' = [op |-> "ZKProver.initialize", wasInitialized |-> initialized,
                setupValid |-> setupValid,
                threw |-> IF initialized \/ setupValid THEN ""
                          ELSE "CIRCUIT_INITIALIZATION_FAILED"]
    /\ UNCHANGED <<now, trustedRoots, rootMetadata, verificationKey, ver, setVars, config>>

\* validateProofInputs: the error it throws, NoError when it returns.
validateProofInputs(merkleProof, credential) ==
    IF \/ merkleProof = NullMerkleProof
       \/ "root" \notin DOMAIN merkleProof
       \/ Len(merkleProof.root) = 0
       \/ "siblings" \notin DOMAIN merkleProof
    THEN ProofError("INVALID_PROOF_STRUCTURE", "Invalid Merkle proof structure")
    ELSE IF Len(credential) = 0
    THEN ProofError("INVALID_CREDENTIAL", "Invalid credential")
    ELSE IF Len(merkleProof.siblings) > config.maxMerkleDepth
    THEN ProofError("INVALID_PROOF_STRUCTURE", "Merkle proof too deep")
    ELSE NoError

\* while (a.length < n) a.push(fill)
padTo(a, n, fill) ==
    IF Len(a) >= n THEN a ELSE a \o [i \in 1..(n - Len(a)) |-> fill]

\* prepareCircuitInputs throws a SyntaxError when a sibling hash is no hex
\* string and a TypeError when the proof has no pathIndices to spread.
prepareCircuitInputsThrows(merkleProof) ==
    \/ \E i \in 1..Len(merkleProof.siblings) : BigIntThrows(merkleProof.siblings[i].hash)
    \/ "pathIndices" \notin DOMAIN merkleProof

prepareCircuitInputs(merkleProof, credential) ==
    [credential |-> ToDecimal(stringToField(credential)),
     pathElements |->
        padTo([i \in 1..Len(merkleProof.siblings) |->
                  ToDecimal(HexToInt(merkleProof.siblings[i].hash))],
              maxDepth, <<"0">>),
     pathIndices |-> padTo(merkleProof.pathIndices, maxDepth, 0)]

NoCircuitInputs == [credential |-> <<>>, pathElements |-> <<>>, pathIndices |-> <<>>]

\* No proof was returned.
NoZKProof == NullProof

\* The call ended at this stage, with this error (NoError when it returned a
\* proof), having built these circuit inputs.
GenerateEnded(credentialSetId, merkleProof, credential, stage, error, circuitInputs, proof) ==
    /\ last' = [op |-> "ZKProver.generateProof",
                credentialSetId |-> credentialSetId, merkleProof |-> merkleProof,
                credential |-> credential, at |-> now,
                wasInitialized |-> initialized,
                stage |-> stage, error |-> error,
                circuitInputs |-> circuitInputs, proof |-> proof]
    /\ UNCHANGED <<now, trustedRoots, rootMetadata, verificationKey, ver, setVars, proverVars>>

\* ZKProver.generateProof.  artifactsReadable is whether fullProve can read
\* the wasm and the zkey, proofId is what uuidv4() returns.
ZKProver_generateProof(credentialSetId, merkleProof, credential, artifactsReadable, proofId) ==
    IF ~initialized
    THEN GenerateEnded(credentialSetId, merkleProof, credential, "initialized",
             ProofError("CIRCUIT_INITIALIZATION_FAILED",
                        "ZK Prover not initialized. Call initialize() first."),
             NoCircuitInputs, NoZKProof)
    ELSE IF validateProofInputs(merkleProof, credential).throws
    THEN GenerateEnded(credentialSetId, merkleProof, credential, "validateProofInputs",
             validateProofInputs(merkleProof, credential), NoCircuitInputs, NoZKProof)
    ELSE IF prepareCircuitInputsThrows(merkleProof)
    THEN GenerateEnded(credentialSetId, merkleProof, credential, "prepareCircuitInputs",
             [throws |-> TRUE, code |-> "", message |-> "SyntaxError or TypeError"],
             NoCircuitInputs, NoZKProof)
    ELSE LET circuitInputs == prepareCircuitInputs(merkleProof, credential)
             expiryMs == config.proofExpiryHours * HourMs
         IN  IF fullProveThrows(circuitInputs, artifactsReadable)
             THEN GenerateEnded(credentialSetId, merkleProof, credential, "fullProve",
                      ProofError("PROOF_GENERATION_FAILED", "Failed to generate ZK proof"),
                      circuitInputs, NoZKProof)
             ELSE GenerateEnded(credentialSetId, merkleProof, credential, "returned",
                      NoError, circuitInputs,
                      [isNull |-> FALSE,
                       proof |-> fullProve(circuitInputs).proof,
                       publicSignals |-> Signals(fullProve(circuitInputs).publicSignals),
                       metadata |->
                          [present |-> TRUE,
                           proofId |-> proofId,
                           credentialSetId |-> credentialSetId,
                           merkleRoot |-> merkleProof.root,
                           timestamp |-> D(now),
                           expiresAt |-> D(now + expiryMs),
                           version |-> "1.0.0",
                           circuitId |-> "credential-v1.0.0"]])

\* The holder hands the proof it has just been given to the verifier, or
\* posts it, serialized, to the endpoint.
HolderHasProof == last.op = "ZKProver.generateProof" /\ ~last.error.throws

SubmitGenerated ==
    /\ HolderHasProof
    /\ \/ verifyProof(last.proof)
       \/ postVerify(serialize(last.proof))

----------------------------------------------------------------------------
(* Inputs of the prover. *)

\* What the environment holds for the two keys.
Environments ==
    {[PROOF_EXPIRY_HOURS |-> e, MAX_MERKLE_DEPTH |-> d] :
        e \in {Unset, EnvString(<<"0">>), EnvString(<<"-", "1">>),
               EnvString(<<"1">>), EnvString(<<"x">>)},
        d \in {Unset, EnvString(ToDecimal(maxDepth + 1))}}

\* A sibling list of n entries, each on the left, and its path indices.
SiblingsOf(n) == [i \in 1..n |-> [hash |-> padStart(<<"1">>, FieldHexLen), position |-> "left"]]

HandMadeWitness(root, n, m) ==
    [leaf |-> FieldToHex(1), leafIndex |-> 0, root |-> root,
     siblings |-> SiblingsOf(n), pathIndices |-> [i \in 1..m |-> 0]]

\* The witnesses handed to the prover: those of a one-leaf tree and of a
\* full set, a witness naming a registered root, witnesses deeper than the
\* default depth and than the circuit, one with more path indices than
\* siblings, and objects that lack a part.
ProverWitnesses ==
    Witnesses(<<CredA>>) \cup Witnesses(DistinctCredentials(MAX_CREDENTIALS_PER_SET))
        \cup {HandMadeWitness(RootA, 1, 1),
              HandMadeWitness(RootA, maxDepth, maxDepth),
              HandMadeWitness(RootA, maxDepth + 1, maxDepth + 1),
              HandMadeWitness(RootA, 0, maxDepth + 1),
              HandMadeWitness(<<>>, 0, 0),
              [HandMadeWitness(RootA, 1, 1) EXCEPT !.siblings[1].hash = RootNotHex],
              NullMerkleProof,
              [leaf |-> FieldToHex(1), leafIndex |-> 0, root |-> RootA],
              [leaf |-> FieldToHex(1), leafIndex |-> 0, root |-> RootA,
               siblings |-> <<>>]}

\* The calls made on the prover: every witness with a credential, and a
\* well-formed witness with no credential and with artifacts that cannot be
\* read.
ProverCalls ==
    {<<merkleProof, CredA, TRUE>> : merkleProof \in ProverWitnesses}
        \cup {<<merkleProof, EmptyCredential, TRUE>> : merkleProof \in Witnesses(<<CredA>>)}
        \cup {<<merkleProof, CredA, FALSE>> : merkleProof \in Witnesses(<<CredA>>)}

ProofIds == {"p1"}

----------------------------------------------------------------------------
(* Specifications. *)

Init ==
    /\ now = 0
    /\ trustedRoots = EmptyMap
    /\ rootMetadata = EmptyMap
    /\ verificationKey = NullKey
    /\ ver = Idle
    /\ last = [op |-> "none"]
    /\ credentialSets = EmptyMap
    /\ uuidCount = 0
    /\ callerArray = <<>>
    /\ initialized = FALSE
    /\ config = AppConfig([PROOF_EXPIRY_HOURS |-> Unset, MAX_MERKLE_DEPTH |-> Unset])

\* The verifier, the endpoint and the registry they consult.
Next ==
    \/ Tick
    \/ \E root \in PipelineAdds : addTrustedRoot(root)
    \/ \E pair \in PipelineRevokes : revokeTrustedRoot(pair[1], pair[2])
    \/ \E keyFileReadable \in BOOLEAN : initialize(keyFileReadable)
    \/ \E proof \in DirectProofs : verifyProof(proof)
    \/ \E body \in RequestBodies : postVerify(body)
    \/ verifyProofAfterGroth
    \/ ReadAnswer

Spec == Init /\ [][Next]_vars

\* The registry with every kind of entry and query, beside a credential set
\* manager that creates and deletes sets, one set at a time.
NextRegistry ==
    \/ Tick
    \/ \E root \in RegistryAdds : addTrustedRoot(root)
    \/ \E pair \in RegistryPairs : revokeTrustedRoot(pair[1], pair[2])
    \/ \E pair \in RegistryPairs : IsTrustedRootCall(pair[1], pair[2])
    \/ credentialSets = EmptyMap /\ createCredentialSet(<<CredA>>)
    \/ \E setId \in DOMAIN credentialSets : deleteCredentialSet(setId)

SpecRegistry == Init /\ [][NextRegistry]_vars

\* The registry under administrator calls alone, over several sets.
NextBookkeeping ==
    \/ \E root \in BookkeepingAdds : addTrustedRoot(root)
    \/ \E pair \in BookkeepingRevokes : revokeTrustedRoot(pair[1], pair[2])

SpecBookkeeping == Init /\ [][NextBookkeeping]_vars

\* A deployment with any of the environments, once the server has started:
\* the verifier has loaded its key and the registry trusts one root.
InitProver ==
    /\ now = 0
    /\ trustedRoots = [s \in {"s1"} |-> {RootA}]
    /\ rootMetadata =
          [key \in {getRootKey("s1", RootA)} |->
              [credentialSetId |-> "s1", merkleRoot |-> RootA,
               addedAt |-> 0, expiresAt |-> NoExpiry]]
    /\ verificationKey = LoadedKey
    /\ ver = Idle
    /\ last = [op |-> "none"]
    /\ credentialSets = EmptyMap
    /\ uuidCount = 0
    /\ callerArray = <<>>
    /\ initialized = FALSE
    /\ config \in {AppConfig(env) : env \in Environments}

\* The prover, and a holder who submits each proof the prover returns to a
\* verifier whose registry trusts one root.
NextProver ==
    \/ Tick
    \/ \E setupValid \in BOOLEAN : ZKProver_initialize(setupValid)
    \/ \E call \in ProverCalls, proofId \in ProofIds :
          ZKProver_generateProof("s1", call[1], call[2], call[3], proofId)
    \/ SubmitGenerated
    \/ verifyProofAfterGroth

SpecProver == InitProver /\ [][NextProver]_vars

\* The credential set manager and its callers.
NextSets ==
    \/ \E credentials \in CredentialLists : createCredentialSet(credentials)
    \/ callerMutatesArray
    \/ \E setId \in SetIds, credential \in AskedCredentials : generateProof(setId, credential)
    \/ \E setId \in SetIds, proof \in StoredWitnesses : verifyCredential(setId, proof)
    \/ \E setId \in SetIds : deleteCredentialSet(setId)

SpecSets == Init /\ [][NextSets]_vars

\* Proofs given to the serializer: those given to the verifier, with every
\* timestamp of the clock and one of several digits.
CodecProofs ==
    {[p EXCEPT !.metadata.timestamp = ts] :
        p \in {q \in DirectProofs : q.metadata.present},
        ts \in {D(t) : t \in 0..MaxTime} \cup {D(10 + MaxTime), InvalidDate}}
    \cup DirectProofs

\* The codec taken alone.  It keeps no state, so one call is made in a
\* behaviour.
NextCodec ==
    /\ last.op = "none"
    /\ \E proof \in CodecProofs : serializeThenDeserialize(proof)

SpecCodec == Init /\ [][NextCodec]_vars

\* SecureMerkleTree.verify on the witnesses of the accepted lists, as handed
\* out and with one byte changed.  The function keeps no state, so one call
\* is made in a behaviour.
NextVerify ==
    \/ /\ last.op = "none"
       /\ \E list \in AcceptedLists : \E w \in Witnesses(list) : StaticVerify(w)
    \/ /\ last.op = "none"
       /\ \E list \in AcceptedLists : \E w \in Witnesses(list) :
             \E t \in Tampered(w) : StaticVerify(t)

SpecVerify == Init /\ [][NextVerify]_vars

----------------------------------------------------------------------------
(* What the properties below say about a proof, stated on the proof itself   *)
(* and on what the verifier could read when the call started.                *)

\* The last completed call is a verifyProof that returned a result.
Returned == last.op = "verifyProof" /\ last.outcome = "returned"
Accepted == Returned /\ last.result.valid
Rejected == Returned /\ ~last.result.valid

\* All required parts and metadata fields are present.
StructurallyValid(p) ==
    /\ ~p.isNull
    /\ p.proof.kind # "missing"
    /\ p.publicSignals.present
    /\ p.metadata.present
    /\ p.metadata.proofId # ""
    /\ p.metadata.credentialSetId # ""
    /\ Len(p.metadata.merkleRoot) > 0

\* The instant d lies before the time t.  An Invalid Date lies before nothing.
HasPassed(d, t) == d.valid /\ d.ms < t

\* The registry entry e is registered and, at time t, its expiry has not passed.
EntryTrusted(e, t) == e.registered /\ ~(e.expiresAt.has /\ e.expiresAt.ms < t)

\* The Groth16 argument of p verifies against the circuit's key.
Sound(p) == Groth16Verify(LoadedKey, p.publicSignals.list, p.proof) = "true"

Registered(credentialSetId, merkleRoot) ==
    /\ credentialSetId \in DOMAIN trustedRoots
    /\ merkleRoot \in trustedRoots[credentialSetId]

----------------------------------------------------------------------------
(* C1 *)

----------------------------------------------------------------------------
(* C2 *)

\* C2: whenever verifyProof returns valid:true, publicSignals[0], the root the
\* Groth16 argument is about, denotes the same value as metadata.merkleRoot, the
\* root that was looked up in the registry.
C2_AcceptedProofIsAboutItsMetadataRoot ==
    Accepted =>
        /\ Len(last.call.proof.publicSignals.list) = 1
        /\ ParseDecimal(last.call.proof.publicSignals.list[1])
               = HexToInt(last.call.proof.metadata.merkleRoot)

----------------------------------------------------------------------------
(* C3 *)

\* A structurally valid proof whose expiresAt is later than the time of the
\* check and whose Groth16 argument is sound.
C3_Case ==
    /\ Returned
    /\ StructurallyValid(last.call.proof)
    /\ last.call.proof.metadata.expiresAt.valid
    /\ last.call.proof.metadata.expiresAt.ms > last.call.checkedAt
    /\ Sound(last.call.proof)

\* C3 as stated: for a structurally valid, unexpired proof whose Groth16
\* argument is sound, verifyProof returns valid:true if and only if the pair of
\* its metadata is registered and not expired (its entry has no expiresAt or
\* one later than the current time).
C3_SoundProofAcceptedIffPairTrusted ==
    C3_Case =>
        (last.result.valid <=>
            /\ last.call.entry.registered
            /\ \/ ~last.call.entry.expiresAt.has
               \/ last.call.entry.expiresAt.ms > last.call.checkedAt)

\* C3 amended: on a verifier whose verification key is loaded, such a proof is
\* accepted if and only if the pair of its metadata is registered and the
\* entry's expiresAt, if any, is not earlier than the time of the check.
C3_InitializedVerifierAcceptsIffPairTrusted ==
    (C3_Case /\ last.call.vkey = LoadedKey) =>
        (last.result.valid <=> EntryTrusted(last.call.entry, last.call.checkedAt))

\* A sound, unexpired proof is rejected by an initialized verifier: the set id
\* it carries is not the one its root is registered under.
C3_Witness ==
    /\ C3_Case
    /\ last.call.vkey = LoadedKey
    /\ ~last.result.valid
    /\ ~Registered(last.call.proof.metadata.credentialSetId,
                   last.call.proof.metadata.merkleRoot)
    /\ \E s \in DOMAIN trustedRoots : last.call.proof.metadata.merkleRoot \in trustedRoots[s]

----------------------------------------------------------------------------
(* C4 *)

StructureMessages ==
    {"Proof is null or undefined", "Incomplete proof structure",
     "Missing required metadata fields", "Missing credential set ID"}

\* C4: the checks run in the order structure, expiry, trusted root, Groth16
\* and stop at the first failure.  A rejected result carries exactly one
\* error, that of the earliest stage that failed; Groth16 verify is invoked
\* only for a proof that passed the three stages before it; an accepted
\* result carries no error.
C4_StagesInOrderStopAtFirstFailure ==
    /\ ver.pc = "awaitGroth" =>
          /\ StructurallyValid(ver.call.proof)
          /\ ~HasPassed(ver.call.proof.metadata.expiresAt, ver.call.checkedAt)
          /\ EntryTrusted(ver.call.entry, ver.call.checkedAt)
    /\ Returned =>
          LET p == last.call.proof
              at == last.call.checkedAt
              errors == last.result.errors
              structure == StructurallyValid(p)
              fresh == ~HasPassed(p.metadata.expiresAt, at)
              trusted == EntryTrusted(last.call.entry, at)
          IN  /\ last.result.valid => errors = <<>>
              /\ ~last.result.valid => Len(errors) = 1
              /\ ~structure =>
                    /\ errors[1] \in StructureMessages
                    /\ last.call.isTrusted = "" /\ last.call.groth16 = ""
              /\ structure /\ ~fresh =>
                    /\ errors = <<"Proof has expired">>
                    /\ last.call.isTrusted = "" /\ last.call.groth16 = ""
              /\ structure /\ fresh /\ ~trusted =>
                    /\ errors = <<"Untrusted credential set root">>
                    /\ last.call.isTrusted = "false" /\ last.call.groth16 = ""
              /\ last.call.groth16 # "" => structure /\ fresh /\ trusted
              /\ last.call.groth16 \in {"false", "throw"} =>
                    errors \in {<<"Invalid cryptographic proof">>,
                                <<"Proof verification error">>}

\* An expired proof with an untrusted root was reported as expired only.
C4_Witness ==
    /\ Rejected
    /\ StructurallyValid(last.call.proof)
    /\ HasPassed(last.call.proof.metadata.expiresAt, last.call.checkedAt)
    /\ ~last.call.entry.registered
    /\ last.result.errors = <<"Proof has expired">>

----------------------------------------------------------------------------
(* C5 *)

NormativeKinds ==
    {"INVALID_PROOF_STRUCTURE", "PROOF_EXPIRED", "UNTRUSTED_ROOT", "PROOF_VERIFICATION_FAILED"}

\* C5 as stated: every rejected result names its failure in errors[] by a
\* normative error kind and by nothing else.
C5_ErrorsAreNormativeKinds ==
    Rejected =>
        /\ Len(last.result.errors) > 0
        /\ \A i \in 1..Len(last.result.errors) : last.result.errors[i] \in NormativeKinds

\* The message the verifier gives for the stage at which this call stopped.
C5_MessagesOfFailure ==
    IF ~StructurallyValid(last.call.proof) THEN StructureMessages
    ELSE IF HasPassed(last.call.proof.metadata.expiresAt, last.call.checkedAt)
         THEN {"Proof has expired"}
    ELSE IF last.call.isTrusted = "false" THEN {"Untrusted credential set root"}
    ELSE IF last.call.vkey = NullKey THEN {"Verifier not initialized"}
    ELSE IF last.call.groth16 = "false" THEN {"Invalid cryptographic proof"}
    ELSE {"Proof verification error"}

\* C5 amended: every rejected result names its failure in errors[] by exactly
\* one fixed message, that of the stage that failed; the messages are literal
\* texts, none of them a normative kind.
C5_ErrorsAreFixedMessages ==
    Rejected =>
        /\ Len(last.result.errors) = 1
        /\ last.result.errors[1] \in C5_MessagesOfFailure
        /\ last.result.errors[1] \notin NormativeKinds

\* A proof with an unregistered pair was rejected with the untrusted-root text.
C5_Witness ==
    /\ Rejected
    /\ last.call.isTrusted = "false"
    /\ last.result.errors = <<"Untrusted credential set root">>

----------------------------------------------------------------------------
(* C6 *)

----------------------------------------------------------------------------
(* C7 *)

\* The timestamp of p is later than t, or its expiresAt is not later than its
\* timestamp.
C7_BadTimestamps(p, t) ==
    /\ p.metadata.present
    /\ p.metadata.timestamp.valid
    /\ \/ p.metadata.timestamp.ms > t
       \/ p.metadata.expiresAt.valid /\ p.metadata.expiresAt.ms <= p.metadata.timestamp.ms

\* C7: a proof whose timestamp is in the future, or whose expiresAt is not
\* strictly after its timestamp, is never reported valid:true, whether it
\* comes through the endpoint or through ZKVerifier.verifyProof directly; the
\* endpoint answers it with INVALID_PROOF_STRUCTURE and no call of the
\* verifier.
C7_BadTimestampsNeverAccepted ==
    /\ (Returned /\ C7_BadTimestamps(last.call.proof, last.call.checkedAt))
          => ~last.result.valid
    /\ (ver.pc = "awaitGroth" /\ ver.call.via = "endpoint")
          => ~C7_BadTimestamps(ver.call.proof, ver.call.checkedAt)
    /\ (/\ last.op = "POST /api/verify"
        /\ ~routeValidationFails(last.body)
        /\ validate(last.body)
        /\ ~deserializeThrows(last.body)
        /\ C7_BadTimestamps(deserialize(last.body), last.at))
          => last.code = "INVALID_PROOF_STRUCTURE"

----------------------------------------------------------------------------
(* C10 *)

\* This step is a call of revokeTrustedRoot.
C10_RevokeStep == last'.op = "revokeTrustedRoot" /\ last' # last

\* revokeTrustedRoot returns true exactly when the pair was registered; a
\* false return leaves the registry as it was; after a true return the pair
\* is not registered and isTrustedRoot is false for it.
C10_RevokeReturn ==
    \A pair \in PipelineRevokes :
        (/\ C10_RevokeStep
         /\ last'.credentialSetId = pair[1]
         /\ last'.merkleRoot = pair[2])
            => /\ last'.result <=> Registered(pair[1], pair[2])
               /\ ~last'.result => UNCHANGED <<trustedRoots, rootMetadata>>
               /\ last'.result =>
                     /\ ~Registered(pair[1], pair[2])'
                     /\ ~isTrustedRoot(pair[1], pair[2])'

\* A pair that is not registered becomes registered only by an addTrustedRoot
\* of that pair.
C10_OnlyAddRegisters ==
    \A pair \in PipelineRevokes :
        (~Registered(pair[1], pair[2]) /\ Registered(pair[1], pair[2])')
            => /\ last'.op = "addTrustedRoot"
               /\ last'.root.credentialSetId = pair[1]
               /\ last'.root.merkleRoot = pair[2]

\* C10 as stated: revokeTrustedRoot returns true exactly when the pair was
\* registered and changes nothing otherwise; after a true return, every
\* verification started before the pair is added again, of a proof carrying
\* the pair (with all its parts and metadata fields), is rejected as an
\* untrusted root.
C10_RevokedPairRejectedAsUntrusted ==
    /\ [][C10_RevokeReturn /\ C10_OnlyAddRegisters]_vars
    /\ []((Returned /\ last.call.afterRevoke /\ StructurallyValid(last.call.proof))
             => /\ ~last.result.valid
                /\ last.result.errors = <<"Untrusted credential set root">>)

\* C10 amended: the same, except that the proof is rejected as an untrusted
\* root when it is structurally valid and unexpired, and rejected by the
\* earlier stage otherwise; it is never reported valid:true.
C10_RevokedPairNeverAccepted ==
    /\ [][C10_RevokeReturn /\ C10_OnlyAddRegisters]_vars
    /\ [](\A pair \in PipelineRevokes :
             (/\ Returned
              /\ last.call.proof.metadata.credentialSetId = pair[1]
              /\ last.call.proof.metadata.merkleRoot = pair[2]
              /\ ~last.call.entry.registered)
                => /\ ~last.result.valid
                   /\ (/\ StructurallyValid(last.call.proof)
                       /\ ~HasPassed(last.call.proof.metadata.expiresAt,
                                     last.call.checkedAt))
                         => last.result.errors = <<"Untrusted credential set root">>)

\* A verification started right after a revoke that returned true, of a
\* proof carrying the revoked pair, was rejected as an untrusted root.
C10_Witness ==
    /\ Rejected
    /\ last.call.afterRevoke
    /\ ~last.call.entry.registered
    /\ last.result.errors = <<"Untrusted credential set root">>

----------------------------------------------------------------------------
(* C8 *)

\* The expiresAt stored for a pair ([has |-> FALSE] when none is stored).
StoredExpiry(credentialSetId, merkleRoot) ==
    IF getRootKey(credentialSetId, merkleRoot) \in DOMAIN rootMetadata
    THEN rootMetadata[getRootKey(credentialSetId, merkleRoot)].expiresAt
    ELSE NoExpiry

\* C8 as stated: isTrustedRoot returns true if and only if the pair is
\* registered and its entry has no expiresAt or one strictly later than the
\* current time.
C8_TrustedIffRegisteredAndExpiryLater ==
    last.op = "isTrustedRoot" =>
        (last.result <=>
            /\ Registered(last.credentialSetId, last.merkleRoot)
            /\ \/ ~StoredExpiry(last.credentialSetId, last.merkleRoot).has
               \/ StoredExpiry(last.credentialSetId, last.merkleRoot).ms > last.at)

\* C8 amended: isTrustedRoot returns true if and only if the pair is
\* registered and its entry has no expiresAt or one equal to or later than the
\* current time; it returns false for an unknown set, an unknown root and an
\* entry whose expiresAt is strictly earlier than now.
C8_TrustedIffRegisteredAndExpiryNotEarlier ==
    last.op = "isTrustedRoot" =>
        (last.result <=>
            /\ Registered(last.credentialSetId, last.merkleRoot)
            /\ \/ ~StoredExpiry(last.credentialSetId, last.merkleRoot).has
               \/ StoredExpiry(last.credentialSetId, last.merkleRoot).ms >= last.at)

\* isTrustedRoot was asked at the very instant of an entry's expiresAt and
\* returned true.
C8_Witness ==
    /\ last.op = "isTrustedRoot"
    /\ Registered(last.credentialSetId, last.merkleRoot)
    /\ StoredExpiry(last.credentialSetId, last.merkleRoot) = ExpiresAtMs(last.at)
    /\ last.result

----------------------------------------------------------------------------
(* C9 *)

\* C9: an addTrustedRoot for a pair that is already registered is a no-op:
\* the entry stored for a registered pair (addedAt, expiresAt) stays as the
\* first add stored it for as long as the pair stays registered.
C9_DuplicateAddIsNoOp ==
    [][\A pair \in RegistryPairs :
          (Registered(pair[1], pair[2]) /\ Registered(pair[1], pair[2])')
              => rootMetadata'[getRootKey(pair[1], pair[2])]
                    = rootMetadata[getRootKey(pair[1], pair[2])]]_vars

----------------------------------------------------------------------------
(* C11 *)

\* This step is a revokeTrustedRoot of this very pair.
C11_RevokedPair(pair) ==
    /\ last' # last
    /\ last'.op = "revokeTrustedRoot"
    /\ last'.credentialSetId = pair[1]
    /\ last'.merkleRoot = pair[2]

\* This step is an addTrustedRoot of this pair that returned without error,
\* with an entry whose expiry has not passed.
C11_AddedUnexpired(pair) ==
    /\ last' # last
    /\ last'.op = "addTrustedRoot"
    /\ last'.threw = ""
    /\ last'.root.credentialSetId = pair[1]
    /\ last'.root.merkleRoot = pair[2]
    /\ ~(last'.root.expiresAt.has /\ last'.root.expiresAt.ms < now)

----------------------------------------------------------------------------
(* C12 *)

IsLowerHexChar(c) == c \in Range(Digits) \cup Range(LowerHexLetters)

\* This step is a call of addTrustedRoot.
C12_AddStep == last'.op = "addTrustedRoot" /\ last' # last

\* A rejected addTrustedRoot leaves the root sets, the metadata and the count
\* as they were; an accepted one registers the pair.
C12_AddEffect ==
    C12_AddStep =>
        IF last'.threw # ""
        THEN /\ UNCHANGED <<trustedRoots, rootMetadata>>
             /\ getTotalRootCount' = getTotalRootCount
        ELSE /\ last'.root.credentialSetId \in DOMAIN trustedRoots'
             /\ last'.root.merkleRoot \in trustedRoots'[last'.root.credentialSetId]

\* C12 as stated: addTrustedRoot registers an entry only when credentialSetId
\* is non-empty and the root is HexLen lowercase hex characters; any other
\* entry is rejected with an error and the registry is left unchanged.
C12_OnlyLowercaseHexRegistered ==
    [][/\ C12_AddEffect
       /\ C12_AddStep =>
             (last'.threw = "" <=>
                 /\ last'.root.credentialSetId # ""
                 /\ Len(last'.root.merkleRoot) = HexLen
                 /\ \A i \in 1..Len(last'.root.merkleRoot) :
                       IsLowerHexChar(last'.root.merkleRoot[i]))]_vars

----------------------------------------------------------------------------
(* C13 *)

\* C13: for every stored set and every credential in it, generateProof
\* returns a witness whose leafIndex is the position of the credential in
\* insertion order, whose root is the root of the set, whose siblings and
\* pathIndices have the same length, and that SecureMerkleTree.verify and
\* verifyCredential of the set both accept; the witness of a set of one
\* credential has no siblings.  Every generateProof call that returned a
\* witness returned that one.
C13_WitnessOfMemberVerifies ==
    /\ \A setId \in DOMAIN credentialSets :
          LET S == credentialSets[setId].credentialSet
          IN  \A i \in 1..Len(S.credentials.items) :
                 LET out == generateProofOutcome(setId, S.credentials.items[i])
                     W == out.proof
                 IN  /\ ~out.error.throws
                     /\ W.leafIndex = i - 1
                     /\ W.root = S.merkleRoot
                     /\ Len(W.siblings) = Len(W.pathIndices)
                     /\ verify(W) = "true"
                     /\ verifyCredentialOutcome(setId, W).result = "true"
                     /\ Len(S.credentials.items) = 1 => W.siblings = <<>>
                     /\ (/\ last.op = "generateProof"
                         /\ last.setId = setId
                         /\ last.credential = S.credentials.items[i])
                           => last.proof = W /\ ~last.error.throws

\* The witness of the third credential of a set of three, whose leaf has no
\* partner in the first layer, has been handed out.
C13_Witness ==
    /\ last.op = "generateProof"
    /\ ~last.error.throws
    /\ last.setId \in DOMAIN credentialSets
    /\ Len(credentialSets[last.setId].credentialSet.credentials.items) = 3
    /\ last.proof.leafIndex = 2
    /\ Len(last.proof.siblings) = 1

----------------------------------------------------------------------------
(* C14 *)

\* The proof just verified is a witness of an accepted list with one byte of
\* its root, of its leaf or of one sibling hash changed.
C14_TamperedWitness ==
    /\ last.op = "SecureMerkleTree.verify"
    /\ \E list \in AcceptedLists : \E w \in Witnesses(list) : last.proof \in Tampered(w)

\* C14: SecureMerkleTree.verify returns false on a valid witness in which
\* one byte of the root, of the leaf or of one sibling hash was changed.
C14_TamperedWitnessIsRejected ==
    C14_TamperedWitness => last.result = "false"

----------------------------------------------------------------------------
(* C15 *)

\* verifyCredential was asked about a stored set whose root is not the root
\* of the witness.  Stored sets never change and identifiers are not handed
\* out twice, so the set read now is the set the call read.
C15_RootDiffers ==
    /\ last.op = "verifyCredential"
    /\ last.setId \in DOMAIN credentialSets
    /\ last.proof.root # credentialSets[last.setId].credentialSet.merkleRoot

\* C15: verifyCredential(B.id, W) returns false whenever W.root is not the
\* stored root of B, and does so without calling SecureMerkleTree.verify.
C15_WitnessOfOtherRootIsRejected ==
    C15_RootDiffers => last.result = "false" /\ ~last.verifyCalled

\* A witness handed out by one stored set, itself valid, was refused by
\* another stored set with a different root.
C15_Witness ==
    /\ C15_RootDiffers
    /\ last.result = "false"
    /\ verify(last.proof) = "true"
    /\ \E a \in DOMAIN credentialSets :
          /\ a # last.setId
          /\ credentialSets[a].credentialSet.merkleRoot = last.proof.root

----------------------------------------------------------------------------
(* C16 *)

\* The list is empty, too long, holds a duplicate, or holds an entry that is
\* empty after trimming or too long.
C16_BadList(list) ==
    \/ Len(list) = 0
    \/ Len(list) > MAX_CREDENTIALS_PER_SET
    \/ \E i, j \in 1..Len(list) : i # j /\ list[i] = list[j]
    \/ \E i \in 1..Len(list) :
          \/ \A k \in 1..Len(list[i]) : list[i][k] = " "
          \/ Len(list[i]) > MAX_CREDENTIAL_LENGTH

\* This step is a call of createCredentialSet.
C16_CreateStep == last'.op = "createCredentialSet" /\ last' # last

\* C16: createCredentialSet rejects a list that is empty, longer than
\* MAX_CREDENTIALS_PER_SET, holds a duplicate, or holds an entry that is empty
\* after trimming or longer than MAX_CREDENTIAL_LENGTH; a rejected create
\* leaves get, list and count as they were; an accepted create stores the
\* list as one new set under an identifier not in use and raises the count
\* by one, the other sets staying as they were.
C16_CreateRejectsBadListsAndStoresOne ==
    [][C16_CreateStep =>
         /\ C16_BadList(last'.credentials) => last'.error.throws
         /\ last'.error.throws =>
               /\ getAllSets' = getAllSets
               /\ getSetCount' = getSetCount
               /\ \A setId \in SetIds : getCredentialSet(setId)' = getCredentialSet(setId)
         /\ ~last'.error.throws =>
               /\ last'.id \notin DOMAIN credentialSets
               /\ getCredentialSet(last'.id) = Undefined
               /\ getSetCount' = getSetCount + 1
               /\ DOMAIN credentialSets' = DOMAIN credentialSets \cup {last'.id}
               /\ \A setId \in DOMAIN credentialSets :
                     credentialSets'[setId] = credentialSets[setId]
               /\ credentialSets'[last'.id].credentialSet.id = last'.id
               /\ credentialSets'[last'.id].credentialSet.credentials.items
                     = last'.credentials]_vars

\* A list with a duplicate was refused while a set was stored.
C16_Witness ==
    /\ last.op = "createCredentialSet"
    /\ last.error.throws
    /\ last.error.message = "Duplicate credentials are not allowed"
    /\ getSetCount = 1

----------------------------------------------------------------------------
(* C17 *)

\* The credentials and the root that a reader of the stored set sees.
C17_Credentials(setId) == Items(credentialSets[setId].credentialSet.credentials)
C17_Root(setId) == credentialSets[setId].credentialSet.merkleRoot

\* This step is a successful deleteCredentialSet of the set.
C17_Deleted(setId) ==
    /\ last' # last
    /\ last'.op = "deleteCredentialSet"
    /\ last'.setId = setId
    /\ last'.result

\* C17: a stored set stays stored until it is deleted, and while it is stored
\* its credentials and its merkleRoot do not change, whatever is created,
\* deleted, asked for or done to the array that was passed to create; its
\* merkleRoot is the root recomputed from its credentials in insertion order;
\* a deleted set is gone for good: get returns nothing and generateProof
\* throws.
C17_StoredSetIsImmutableUntilDeleted ==
    /\ [][\A setId \in SetIds :
             /\ (setId \in DOMAIN credentialSets /\ ~C17_Deleted(setId))
                   => /\ setId \in DOMAIN credentialSets'
                      /\ C17_Credentials(setId)' = C17_Credentials(setId)
                      /\ C17_Root(setId)' = C17_Root(setId)
             /\ C17_Deleted(setId)
                   => /\ setId \in DOMAIN credentialSets
                      /\ setId \notin DOMAIN credentialSets'
             /\ (setId # Uuid(uuidCount + 1) /\ setId \notin DOMAIN credentialSets)
                   => setId \notin DOMAIN credentialSets']_vars
    /\ [](\A setId \in SetIds :
             IF setId \in DOMAIN credentialSets
             THEN /\ C17_Root(setId) = getRoot(SecureMerkleTree(C17_Credentials(setId)))
                  /\ getCredentialSet(setId).id = setId
             ELSE /\ getCredentialSet(setId) = Undefined
                  /\ \A credential \in AskedCredentials :
                        generateProofOutcome(setId, credential).error.throws)

\* The caller has changed the array it passed to create, and the set created
\* from it is stored with other credentials than the array holds now.
C17_Witness ==
    /\ last.op = "callerMutatesArray"
    /\ Uuid(uuidCount) \in DOMAIN credentialSets
    /\ C17_Credentials(Uuid(uuidCount)) # callerArray
    /\ Len(callerArray) > 0

----------------------------------------------------------------------------
(* C18 *)

\* C18: generateProof answers a credential that is not in the set and a set
\* identifier that is not stored with the same error wording, "Invalid
\* credential".
C18_SameWordingForUnknownSetAndNonMember ==
    (last.op = "generateProof" /\ last.error.throws)
        => last.error.message = "Invalid credential"

----------------------------------------------------------------------------
(* C19 *)

\* A proof with every field in place: a Groth16 body, public signals and
\* metadata whose two dates are dates.
C19_WellFormed(p) ==
    /\ ~p.isNull
    /\ p.proof.kind = "groth16"
    /\ p.publicSignals.present
    /\ p.metadata.present
    /\ p.metadata.timestamp.valid
    /\ p.metadata.expiresAt.valid

----------------------------------------------------------------------------
(* C20 *)

\* Both dates of the proof are dates.
C20_DatesParsed(p) == p.metadata.timestamp.valid /\ p.metadata.expiresAt.valid

\* C20: deserialize refuses a body whose timestamp or expiresAt string is no
\* valid timestamp, so every proof that the endpoint hands to the verifier
\* and that reaches the expiry and trust stages has two parsed dates.
C20_UnparsableDatesNeverReachTheStages ==
    /\ (/\ last.op = "verifyProof"
        /\ last.call.via = "endpoint"
        /\ StructurallyValid(last.call.proof))
          => C20_DatesParsed(last.call.proof)
    /\ (ver.pc = "awaitGroth" /\ ver.call.via = "endpoint")
          => C20_DatesParsed(ver.call.proof)

----------------------------------------------------------------------------
(* C27 *)

\* The pairs isTrustedRoot answers true for at this instant.
C27_TrustedPairs ==
    {pair \in RegistryPairs : isTrustedRoot(pair[1], pair[2])}

\* C27: an entry leaves the registry by expiry as well as by revoke: at every
\* instant getTrustedRoots(setId) lists exactly the roots for which
\* isTrustedRoot(setId, root) is true, and getTotalRootCount is the number of
\* those pairs, so an entry whose expiresAt has passed is neither listed nor
\* counted.
C27_ExpiredEntryIsNeitherListedNorCounted ==
    /\ \A pair \in RegistryPairs :
          pair[2] \in getTrustedRoots(pair[1]) <=> isTrustedRoot(pair[1], pair[2])
    /\ getTotalRootCount = Cardinality(C27_TrustedPairs)

----------------------------------------------------------------------------
(* C29 *)

\* The pairs stored in the map of sets.
C29_RegisteredPairs ==
    {pair \in (DOMAIN trustedRoots) \X (UNION {trustedRoots[s] : s \in DOMAIN trustedRoots}) :
        Registered(pair[1], pair[2])}

\* C29: after any sequence of addTrustedRoot and revokeTrustedRoot calls the
\* two maps agree: every root stored for a set has a metadata entry under
\* the key of its pair, every metadata entry is the entry of a pair whose root
\* is stored for its set and lies under that pair's key, and
\* getTotalRootCount is the number of registered pairs, which is the number
\* of metadata entries.
C29_MapsAgree ==
    /\ \A pair \in C29_RegisteredPairs :
          getRootKey(pair[1], pair[2]) \in DOMAIN rootMetadata
    /\ \A key \in DOMAIN rootMetadata :
          /\ Registered(rootMetadata[key].credentialSetId, rootMetadata[key].merkleRoot)
          /\ key = getRootKey(rootMetadata[key].credentialSetId,
                              rootMetadata[key].merkleRoot)
    /\ getTotalRootCount = Cardinality(C29_RegisteredPairs)
    /\ getTotalRootCount = Cardinality(DOMAIN rootMetadata)

\* One root of a set holding two has just been revoked, and a root of another
\* set is registered beside the one that stays.
C29_Witness ==
    /\ last.op = "revokeTrustedRoot"
    /\ last.result
    /\ last.credentialSetId = "s1"
    /\ trustedRoots["s1"] # {}
    /\ Registered("s2", RootA)
    /\ getTotalRootCount = 2

----------------------------------------------------------------------------
(* C30 *)

\* C30: ZKVerifier.verifyProof always completes with a VerificationResult and
\* never throws or rejects: a null proof, a proof without its body, its
\* public signals or its metadata, and a Groth16 check that throws are all
\* answered valid:false, with credentialSetId 'unknown' when the proof
\* carries no set id.
C30_VerifyProofAlwaysReturnsAResult ==
    last.op = "verifyProof" =>
        /\ last.outcome = "returned"
        /\ (\/ validateProofStructure(last.call.proof) # ""
            \/ last.call.groth16 = "throw") => ~last.result.valid
        /\ (\/ last.call.proof.isNull
            \/ ~last.call.proof.metadata.present
            \/ last.call.proof.metadata.credentialSetId = "")
              => last.result.credentialSetId = "unknown"

----------------------------------------------------------------------------
(* C28 *)

\* C28: no verification returns valid:true for a proof whose (setId, root)
\* pair has been revoked before the result is returned: at the moment
\* verifyProof returns valid:true the pair of the proof is registered, also
\* when revokeTrustedRoot ran while the verification was suspended between
\* its trusted-root check and the completion of the Groth16 check.
C28_NoAcceptanceOfAPairRevokedBeforeTheReturn ==
    Accepted =>
        Registered(last.call.proof.metadata.credentialSetId,
                   last.call.proof.metadata.merkleRoot)

----------------------------------------------------------------------------
(* C21 *)

\* ZKProver.generateProof has just returned a proof.
ProofGenerated == last.op = "ZKProver.generateProof" /\ ~last.error.throws

\* C21: every proof returned by ZKProver.generateProof has a
\* metadata.timestamp no later than the time of generation and a
\* metadata.expiresAt strictly later than its metadata.timestamp, whatever
\* value proof_expiry_hours is configured to.
C21_GeneratedProofExpiresAfterItsTimestamp ==
    ProofGenerated =>
        /\ DateLe(last.proof.metadata.timestamp, D(last.at))
        /\ DateGt(last.proof.metadata.expiresAt, last.proof.metadata.timestamp)

----------------------------------------------------------------------------
(* C22 *)

\* C22: a proof generated with proof_expiry_hours = 0 and then submitted for
\* verification, directly or through the endpoint, is answered valid:false
\* with the error of the expiry stage ('Proof has expired', PROOF_EXPIRED):
\* it is not turned away as structurally invalid before the verifier is
\* called and it is not accepted, however little time has passed since it
\* was generated.
C22_ZeroLifetimeProofIsRejectedAsExpired ==
    config.proofExpiryHours = 0 =>
        /\ last.op # "POST /api/verify"
        /\ last.op = "verifyProof" =>
              /\ last.outcome = "returned"
              /\ ~last.result.valid
              /\ last.result.errors = <<"Proof has expired">>

----------------------------------------------------------------------------
(* C23 *)

\* C23: ZKProver.generateProof returns a proof only when the root the
\* circuit output as publicSignals[0] is the witness root W.root, which it
\* stamps as metadata.merkleRoot; when the two differ no proof is returned
\* (the call fails with PROOF_GENERATION_FAILED).
C23_ReturnedProofIsAboutTheWitnessRoot ==
    ProofGenerated =>
        /\ last.proof.metadata.merkleRoot = last.merkleProof.root
        /\ ParseDecimal(last.proof.publicSignals.list[1]) = HexToInt(last.merkleProof.root)

----------------------------------------------------------------------------
(* C24 *)

\* This step is a call of ZKProver.generateProof / of ZKProver.initialize.
C24_GenerateStep == last' # last /\ last'.op = "ZKProver.generateProof"
C24_InitializeStep == last' # last /\ last'.op = "ZKProver.initialize"

\* C24: generateProof fails with CIRCUIT_INITIALIZATION_FAILED, before it
\* validates its inputs, builds circuit inputs or calls Groth16, exactly when
\* no earlier initialize() has succeeded; the prover becomes initialized only
\* by an initialize() that finds the circuit files; an initialize() that
\* finds a file missing fails with CIRCUIT_INITIALIZATION_FAILED and leaves
\* the prover uninitialized; an initialized prover stays initialized, and an
\* initialize() on it returns without error and changes nothing.
C24_NoProvingBeforeInitialization ==
    [][/\ (C24_GenerateStep /\ ~initialized)
            => /\ last'.error.code = "CIRCUIT_INITIALIZATION_FAILED"
               /\ last'.stage = "initialized"
               /\ last'.circuitInputs = NoCircuitInputs
               /\ last'.proof = NoZKProof
       /\ (C24_GenerateStep /\ initialized)
            => /\ last'.error.code # "CIRCUIT_INITIALIZATION_FAILED"
               /\ last'.stage # "initialized"
       /\ (~initialized /\ initialized')
            => /\ C24_InitializeStep
               /\ last'.setupValid
               /\ last'.threw = ""
       /\ (C24_InitializeStep /\ ~initialized /\ ~last'.setupValid)
            => /\ last'.threw = "CIRCUIT_INITIALIZATION_FAILED"
               /\ ~initialized'
       /\ initialized => initialized'
       /\ (C24_InitializeStep /\ initialized)
            => /\ last'.threw = ""
               /\ UNCHANGED <<now, trustedRoots, rootMetadata, verificationKey, ver,
                              setVars, proverVars>>]_vars

\* generateProof was called on a prover that is not initialized, with a null
\* witness, and failed for the missing initialization, not for the witness.
C24_Witness ==
    /\ last.op = "ZKProver.generateProof"
    /\ ~initialized
    /\ last.merkleProof = NullMerkleProof
    /\ last.error.code = "CIRCUIT_INITIALIZATION_FAILED"

----------------------------------------------------------------------------
(* C25 *)

\* The sequence padded is the sequence own followed by nothing but fill, and
\* has the circuit's depth.
C25_PaddedToDepth(padded, own, fill) ==
    /\ Len(padded) = maxDepth
    /\ Len(own) <= maxDepth
    /\ \A i \in 1..maxDepth :
          padded[i] = IF i <= Len(own) THEN own[i] ELSE fill

\* C25: for every witness that validateProofInputs accepts and for which
\* circuit inputs are built, the inputs hold exactly maxDepth pathElements and
\* exactly maxDepth pathIndices: the witness's own entries in order (the
\* sibling hashes as decimal strings), followed by "0" and 0 padding; and
\* under the default max_merkle_depth every witness of a set of at most
\* MAX_CREDENTIALS_PER_SET credentials is accepted by that validation.
C25_CircuitInputsHaveTheCircuitDepth ==
    /\ (last.op = "ZKProver.generateProof" /\ last.stage \in {"fullProve", "returned"})
          => /\ C25_PaddedToDepth(last.circuitInputs.pathElements,
                                  [i \in 1..Len(last.merkleProof.siblings) |->
                                      ToDecimal(HexToInt(last.merkleProof.siblings[i].hash))],
                                  <<"0">>)
             /\ C25_PaddedToDepth(last.circuitInputs.pathIndices,
                                  last.merkleProof.pathIndices, 0)
    /\ config.maxMerkleDepth = DefaultMaxMerkleDepth
          => \A n \in 1..MAX_CREDENTIALS_PER_SET :
                \A merkleProof \in Witnesses(DistinctCredentials(n)) :
                    ~validateProofInputs(merkleProof, CredA).throws

----------------------------------------------------------------------------
(* C26 *)

\* C26: in every witness that getProof produces, pathIndices[k] follows the
\* circuit's convention for level k: it is 0 exactly when the sibling is on
\* the right (the circuit hashes (current, pathElement) for index 0) and 1
\* exactly when the sibling is on the left (the circuit hashes
\* (pathElement, current) for index 1).
C26_PathIndicesFollowTheCircuit ==
    (last.op = "generateProof" /\ ~last.error.throws) =>
        \A k \in 1..Len(last.proof.siblings) :
            /\ last.proof.pathIndices[k] = 0 <=> last.proof.siblings[k].position = "right"
            /\ last.proof.pathIndices[k] = 1 <=> last.proof.siblings[k].position = "left"

====
